---- MODULE Spec2Model ----
(***************************************************************************)
(* A model of the bridges registration-and-execution engine:               *)
(*   bridges/core/basic.py  FunctionMetadata (the execution pipeline) and  *)
(*                          Bridge (registry, hooks, versioned context)    *)
(*   bridges/core/types.py  the ParamSource / OutputDestination variants   *)
(*                                                                         *)
(* Python values are records [tag, n]; context keys are sequences of       *)
(* string tokens, so that the f-string f"{key}:{instance_name}" is a       *)
(* concatenation of tokens.                                                *)
(***************************************************************************)
EXTENDS Integers, Sequences, FiniteSets, TLC

VARIABLES
    functions,        \* Bridge.functions: command name -> FunctionMetadata
    context,          \* Bridge.context: key -> value
    context_history,  \* Bridge.context_history: list of deep snapshots
    pre_hooks,        \* Bridge._pre_hooks
    post_hooks,       \* Bridge._post_hooks
    error_hooks,      \* Bridge._error_hooks
    last,             \* what the caller of the last operation observed
    before,           \* history variable: context and history when it was called
    n_updates,        \* history variable: the update_context calls made on a
                      \* bridge whose context nothing else has touched, else -1
    loop              \* the front-end command loop: "idle" (none is running),
                      \* "CLI" or "MinimalCLI" (that loop is reading commands),
                      \* "left" (an exception has left run())

vars == <<functions, context, context_history, pre_hooks, post_hooks,
          error_hooks, last, before, n_updates, loop>>

(***************************************************************************)
(* Bounds of the model.                                                    *)
(***************************************************************************)
MaxHistory == 4   \* longest context history explored
MaxHooks == 3     \* most hooks registered on one bridge (all three lists)
MaxCount == 1     \* largest number an object stored in the context counts to
MaxInstances == 2 \* most constructor calls made on one bridge

(***************************************************************************)
(* Python values.                                                          *)
(***************************************************************************)
None == [tag |-> "none", n |-> 0]
IntV(i) == [tag |-> "int", n |-> i]
\* a string holding the decimal text of i, e.g. "1"
NumStr(i) == [tag |-> "str", n |-> i]
\* a string that is not the text of a number, e.g. "x"
Txt == [tag |-> "txt", n |-> 0]
\* an exception object of the named class
Exc(cls) == [tag |-> cls, n |-> 0]
NoValue == [tag |-> "novalue", n |-> 0]

EmptyDict == [k \in {} |-> None]

\* d[k] = v on a Python dict
DictSet(d, k, v) == [x \in (DOMAIN d) \cup {k} |-> IF x = k THEN v ELSE d[x]]

\* d.get(k, dflt)
DictGet(d, k, dflt) == IF k \in DOMAIN d THEN d[k] ELSE dflt

\* copy.deepcopy of a context dict: an equal dict that shares nothing with
\* the original (the values of the model are immutable contents)
deepcopy(d) == [k \in DOMAIN d |-> d[k]]

(***************************************************************************)
(* Bridge: the versioned context (basic.py 293-316).  A bridge state is    *)
(* the pair [ctx, hist] of Bridge.context and Bridge.context_history.      *)
(***************************************************************************)
\* mutant: the snapshot is taken before the key is set
update_context_snapshot_first(b, key, value) ==
    [ctx |-> DictSet(b.ctx, key, value), hist |-> Append(b.hist, deepcopy(b.ctx))]

\* Bridge.update_context
update_context(b, key, value) ==
    LET c == DictSet(b.ctx, key, value)
    IN  [ctx |-> c, hist |-> Append(b.hist, deepcopy(c))]

\* mutant: the cleared context is recorded as one more snapshot
clear_context_keep_history(b) ==
    [ctx |-> EmptyDict, hist |-> Append(b.hist, deepcopy(EmptyDict))]

\* Bridge.clear_context
clear_context(b) ==
    [ctx |-> EmptyDict, hist |-> <<deepcopy(EmptyDict)>>]

\* mutant: the index is counted from the newest snapshot
restore_context_from_end(b, index) ==
    IF 0 <= index /\ index < Len(b.hist)
    THEN LET c == deepcopy(b.hist[Len(b.hist) - index])
         IN  [ctx |-> c, hist |-> Append(b.hist, deepcopy(c)), raised |-> FALSE]
    ELSE [ctx |-> b.ctx, hist |-> b.hist, raised |-> TRUE]

\* mutant: only the upper bound is checked, so that -1 is Python's last entry
restore_context_negative_ok(b, index) ==
    IF index < Len(b.hist)
    THEN LET c == deepcopy(b.hist[IF index < 0 THEN Len(b.hist) ELSE index + 1])
         IN  [ctx |-> c, hist |-> Append(b.hist, deepcopy(c)), raised |-> FALSE]
    ELSE [ctx |-> b.ctx, hist |-> b.hist, raised |-> TRUE]

\* mutant: restoring rewinds the history to the restored snapshot
restore_context_rewind(b, index) ==
    IF 0 <= index /\ index < Len(b.hist)
    THEN [ctx |-> deepcopy(b.hist[index + 1]), hist |-> SubSeq(b.hist, 1, index + 1),
          raised |-> FALSE]
    ELSE [ctx |-> b.ctx, hist |-> b.hist, raised |-> TRUE]

\* Bridge.restore_context; raised is the IndexError of the else branch
restore_context(b, index) ==
    IF 0 <= index /\ index < Len(b.hist)
    THEN LET c == deepcopy(b.hist[index + 1])   \* Python indexes from 0
         IN  [ctx |-> c, hist |-> Append(b.hist, deepcopy(c)), raised |-> FALSE]
    ELSE [ctx |-> b.ctx, hist |-> b.hist, raised |-> TRUE]

(***************************************************************************)
(* ParamSource variants (types.py).  A ParamSource of the model is         *)
(*   [src, validator, dflt]                                                *)
(* src       the class: "Input", "Menu", "List", "File", "Context",        *)
(*           "Meta" (ParameterMetadata) or "Custom" (a user subclass)      *)
(* validator "none" or the name of a validator callable                    *)
(* dflt      [kind, v]: kind "static" (the attribute holds v) or           *)
(*           "callable" (the attribute holds a zero-argument producer of v)*)
(***************************************************************************)
Static(v) == [kind |-> "static", v |-> v]
Producer(v) == [kind |-> "callable", v |-> v]

\* classes whose __init__ sets self.default
HasDefaultAttr(src) == src \in {"Input", "Menu", "List", "Meta"}
\* classes whose __init__ sets self.validator
HasValidatorAttr(src) == src \in {"Input", "Menu", "List", "File", "Meta"}

InputParamSource(dflt, validator) ==
    [src |-> "Input", validator |-> validator, dflt |-> dflt]
\* a user-defined ParamSource subclass without attributes (tests/test_custom_types.py)
MyParam == [src |-> "Custom", validator |-> "none", dflt |-> Static(None)]

\* The validator callables of the model: value -> "true", "false" or "raise".
\*   positive   lambda v: v > 0     (comparing a str or None with 0 raises TypeError)
CallValidator(validator, value) ==
    IF validator = "positive"
    THEN IF value.tag = "int"
         THEN (IF value.n > 0 THEN "true" ELSE "false")
         ELSE "raise"
    ELSE "true"

(***************************************************************************)
(* The generated pydantic model (basic.py 86-100): one field per declared  *)
(* parameter, [pname, ann, req, dflt].                                     *)
(***************************************************************************)
\* _make_pydantic_model: an unannotated parameter becomes a str field
FieldType(ann) == IF ann = "empty" THEN "str" ELSE ann

\* pydantic's lax coercion of one value to a field type; NoValue = error
Coerce(type, v) ==
    IF type = "int"
    THEN (IF v.tag = "int" THEN v
          ELSE IF v.tag = "str" THEN IntV(v.n)     \* "1" -> 1
          ELSE NoValue)
    ELSE IF type = "str"
    THEN (IF v.tag \in {"str", "txt"} THEN v ELSE NoValue)
    ELSE v

\* does pydantic_model(**params) raise ValidationError?
SchemaFails(sig, params) ==
    \E i \in 1..Len(sig) :
        IF sig[i].pname \in DOMAIN params
        THEN Coerce(FieldType(sig[i].ann), params[sig[i].pname]) = NoValue
        ELSE sig[i].req

\* validated.model_dump(): every field, coerced, defaults filled in
ModelDump(sig, params) ==
    [p \in {sig[i].pname : i \in 1..Len(sig)} |->
        LET i == CHOOSE j \in 1..Len(sig) : sig[j].pname = p
        IN  IF p \in DOMAIN params
            THEN Coerce(FieldType(sig[i].ann), params[p])
            ELSE sig[i].dflt]

(***************************************************************************)
(* The registered functions of the model.  A Python function is            *)
(*   [fname, sig, body]   sig: the declared parameters, in order, each     *)
(*   [pname, ann, req, dflt] (annotation, required?, declared default)     *)
(***************************************************************************)
Required(pname, ann) == [pname |-> pname, ann |-> ann, req |-> TRUE, dflt |-> None]
Optional(pname, ann, dflt) == [pname |-> pname, ann |-> ann, req |-> FALSE, dflt |-> dflt]

\* tests/test_core_errors.py: def add_positive(a: int)
f_add_positive == [fname |-> "add_positive", body |-> "add_positive",
                   sig |-> <<Required("a", "int")>>]
\* tests/test_core_hooks.py: def fail(a)
f_fail == [fname |-> "fail", body |-> "fail", sig |-> <<Required("a", "empty")>>]
\* tests/test_core_hooks.py: def add(a: str, b: str)
f_add == [fname |-> "add", body |-> "add",
          sig |-> <<Required("a", "str"), Required("b", "str")>>]
\* tests/test_custom_types.py: def f(a: int)
f_double == [fname |-> "f", body |-> "double", sig |-> <<Required("a", "int")>>]

(***************************************************************************)
(* Stateful classes (basic.py 325-457).  A class is [cname, init, msigs]:  *)
(* its name, the parameters of __init__ after self, and the parameters of  *)
(* each method after self.  An instance is the value [tag |-> cname, n],   *)
(* n being the one attribute that makes up its state.                      *)
(***************************************************************************)
\* tests/test_core_basic.py: class Counter, state self.value
Counter == [cname |-> "Counter",
            init |-> <<Optional("start", "int", IntV(0))>>,
            msigs |-> [m \in {"increment", "reset"} |->
                         IF m = "increment" THEN <<Optional("amount", "int", IntV(1))>>
                         ELSE <<>>]]
\* a container class, state len(self.items):
\*   def __init__(self, size: int = 0):
\*       if size < 0: raise ValueError(size)
\*       self.items = [0] * size
\*   def add(self, item: int): self.items.append(item); return len(self.items)
\*   def take(self): self.items.pop(); return len(self.items)
\*   def __len__(self): return len(self.items)
Basket == [cname |-> "Basket",
           init |-> <<Optional("size", "int", IntV(0))>>,
           msigs |-> [m \in {"add", "take"} |->
                        IF m = "add" THEN <<Required("item", "int")>> ELSE <<>>]]

\* the instance names given by callers: "foo" and "bar"
Foo == [tag |-> "txt", n |-> 1]
Bar == [tag |-> "txt", n |-> 2]
\* the text of a str value, as a key token
Text(v) == IF v = Foo THEN "foo" ELSE IF v = Bar THEN "bar" ELSE "x"

\* bool(v): None, 0 and an object whose __len__ returns 0 are false
Truthy(v) ==
    IF v.tag = "none" THEN FALSE
    ELSE IF v.tag \in {"int", "Basket"} THEN v.n # 0
    ELSE TRUE

\* str.lower() on a class name
Lower(s) == IF s = "Counter" THEN "counter" ELSE IF s = "Basket" THEN "basket" ELSE s

\* mutant: the default key is built from the lower-cased class name
BaseKey_lower(cls, context_key) ==
    IF context_key # <<>> THEN context_key ELSE <<Lower(cls.cname), "_instance">>

\* register_class: key = context_key or f"{cls.__name__}_instance"
\* (context_key None is the empty token sequence)
BaseKey(cls, context_key) ==
    IF context_key # <<>> THEN context_key ELSE <<cls.cname, "_instance">>

\* mutant: instances of one class all live under the base key
StoreKey_shared(key, instance_name) == key

\* store_key = f"{key}:{instance_name}" if instance_name else key
StoreKey(key, instance_name) ==
    IF Truthy(instance_name) THEN key \o <<":", Text(instance_name)>> ELSE key

\* does cls(*args, **kwargs) raise?  Basket rejects a negative size
InitRaises(cls, kwargs) == cls.cname = "Basket" /\ kwargs["size"].n < 0

\* cls(*args, **kwargs)
New(cls, kwargs) ==
    IF cls.cname = "Counter" THEN [tag |-> "Counter", n |-> kwargs["start"].n]
    ELSE [tag |-> "Basket", n |-> kwargs["size"].n]

\* getattr(instance, mname)(**kwargs): the instance afterwards and the value
\* returned; raised when the object has no such method
CallMethod(instance, mname, kwargs) ==
    CASE instance.tag = "Counter" /\ mname = "increment" ->
            [raised |-> FALSE,
             inst |-> [instance EXCEPT !.n = instance.n + kwargs["amount"].n],
             value |-> IntV(instance.n + kwargs["amount"].n)]
      [] instance.tag = "Counter" /\ mname = "reset" ->
            [raised |-> FALSE, inst |-> [instance EXCEPT !.n = 0], value |-> IntV(0)]
      [] instance.tag = "Basket" /\ mname = "add" ->
            [raised |-> FALSE, inst |-> [instance EXCEPT !.n = instance.n + 1],
             value |-> IntV(instance.n + 1)]
      [] instance.tag = "Basket" /\ mname = "take" ->
            IF instance.n = 0
            THEN [raised |-> TRUE, inst |-> instance, value |-> Exc("IndexError")]
            ELSE [raised |-> FALSE, inst |-> [instance EXCEPT !.n = instance.n - 1],
                  value |-> IntV(instance.n - 1)]
      [] OTHER -> [raised |-> TRUE, inst |-> instance, value |-> Exc("AttributeError")]

\* RuntimeError(f"No {cls.__name__} instance found in context for key '{store_key}'. ...")
NoInstanceError(store_key) == [tag |-> "RuntimeError", n |-> 0, key |-> store_key]

\* mutant: the constructor command stores the object and returns nothing
make_and_store_instance_no_return(func, kwargs, b) ==
    LET instance == New(func.cls, kwargs)
        store_key == StoreKey(func.key, kwargs["instance_name"])
        b2 == update_context(b, store_key, instance)
    IN  [raised |-> FALSE, value |-> None, ctx |-> b2.ctx, hist |-> b2.hist]

\* mutant: the key is written before the object is constructed
make_and_store_instance_eager(func, kwargs, b) ==
    LET store_key == StoreKey(func.key, kwargs["instance_name"])
        b1 == update_context(b, store_key, None)
        b2 == update_context(b, store_key, New(func.cls, kwargs))
    IN  IF InitRaises(func.cls, kwargs)
        THEN [raised |-> TRUE, value |-> Exc("ValueError"), ctx |-> b1.ctx, hist |-> b1.hist]
        ELSE [raised |-> FALSE, value |-> New(func.cls, kwargs),
              ctx |-> b2.ctx, hist |-> b2.hist]

\* make_and_store_instance(*args, instance_name=None, **kwargs) of
\* _register_stateful_constructor
make_and_store_instance(func, kwargs, b) ==
    LET instance == New(func.cls, kwargs)
        store_key == StoreKey(func.key, kwargs["instance_name"])
        b2 == update_context(b, store_key, instance)
    IN  IF InitRaises(func.cls, kwargs)
        THEN [raised |-> TRUE, value |-> Exc("ValueError"), ctx |-> b.ctx, hist |-> b.hist]
        ELSE [raised |-> FALSE, value |-> instance, ctx |-> b2.ctx, hist |-> b2.hist]

\* mutant: the method is looked up on whatever the context returns
method_func_unchecked(func, kwargs, b) ==
    LET store_key == StoreKey(func.key, kwargs["instance_name"])
        instance == DictGet(b.ctx, store_key, None)
        call == CallMethod(instance, func.mname, kwargs)
    IN  [raised |-> call.raised, value |-> call.value,
         ctx |-> IF call.raised THEN b.ctx ELSE DictSet(b.ctx, store_key, call.inst),
         hist |-> b.hist]

\* mutant: the snapshots hold the stored object itself (shallow copies), so
\* that a method's change shows in every snapshot that has the object
method_func_shared(func, kwargs, b) ==
    LET store_key == StoreKey(func.key, kwargs["instance_name"])
        instance == DictGet(b.ctx, store_key, None)
        call == CallMethod(instance, func.mname, kwargs)
    IN  IF ~Truthy(instance)
        THEN [raised |-> TRUE, value |-> NoInstanceError(store_key),
              ctx |-> b.ctx, hist |-> b.hist]
        ELSE [raised |-> call.raised, value |-> call.value,
              ctx |-> DictSet(b.ctx, store_key, call.inst),
              hist |-> [i \in 1..Len(b.hist) |->
                          IF store_key \in DOMAIN b.hist[i]
                          THEN DictSet(b.hist[i], store_key, call.inst)
                          ELSE b.hist[i]]]

\* mutant: the method command stores the changed object with update_context
method_func_versioned(func, kwargs, b) ==
    LET store_key == StoreKey(func.key, kwargs["instance_name"])
        instance == DictGet(b.ctx, store_key, None)
        call == CallMethod(instance, func.mname, kwargs)
        b2 == update_context(b, store_key, call.inst)
    IN  IF ~Truthy(instance)
        THEN [raised |-> TRUE, value |-> NoInstanceError(store_key),
              ctx |-> b.ctx, hist |-> b.hist]
        ELSE [raised |-> call.raised, value |-> call.value, ctx |-> b2.ctx, hist |-> b2.hist]

\* method_func(*args, instance_name=None, **kwargs) of
\* _register_stateful_methods: the method works on the stored object itself
method_func(func, kwargs, b) ==
    LET store_key == StoreKey(func.key, kwargs["instance_name"])
        instance == DictGet(b.ctx, store_key, None)
        call == CallMethod(instance, func.mname, kwargs)
    IN  IF ~Truthy(instance)
        THEN [raised |-> TRUE, value |-> NoInstanceError(store_key),
              ctx |-> b.ctx, hist |-> b.hist]
        ELSE [raised |-> call.raised, value |-> call.value,
              ctx |-> DictSet(b.ctx, store_key, call.inst), hist |-> b.hist]

\* Bridge.list_all_instances: one entry per context key that contains
\* "_instance" --
\*   base, *rest = key.split(":", 1)
\*   class_part = base.replace("_instance", "")
\*   instance_name = rest[0] if rest else "default"
\* A key is a sequence of tokens, ":" and "_instance" being tokens of their own.
FirstColon(key) ==
    IF \E i \in 1..Len(key) : key[i] = ":"
    THEN CHOOSE i \in 1..Len(key) : key[i] = ":" /\ \A j \in 1..(i - 1) : key[j] # ":"
    ELSE 0
ListEntry(key) ==
    LET c == FirstColon(key)
        base == IF c = 0 THEN key ELSE SubSeq(key, 1, c - 1)
    IN  [key |-> key,
         class_part |-> SelectSeq(base, LAMBDA t : t # "_instance"),
         instance_name |-> IF c = 0 THEN <<"default">> ELSE SubSeq(key, c + 1, Len(key))]
ListEntries(ctx) ==
    {ListEntry(key) : key \in {k \in DOMAIN ctx : \E i \in 1..Len(k) : k[i] = "_instance"}}
\* the dict returned: class_part -> the instance names appended for it (the
\* names as a set; ListEntries keeps one entry per key)
list_all_instances(ctx) ==
    [c \in {e.class_part : e \in ListEntries(ctx)} |->
        {e.instance_name : e \in {x \in ListEntries(ctx) : x.class_part = c}}]

\* tests/test_core_basic.py: def greet(name: str, excited: bool = False)
BoolV(b) == [tag |-> "bool", n |-> IF b THEN 1 ELSE 0]
f_greet == [fname |-> "greet", body |-> "greet",
            sig |-> <<Required("name", "str"), Optional("excited", "bool", BoolV(FALSE))>>]
\* the strings greet returns: "Hello, x." and "Hello, x! ..."
Hello == [tag |-> "txt", n |-> 3]
HelloExcited == [tag |-> "txt", n |-> 4]
\* usage.py: def calculate(a: float, b: float, operation: Operation)
f_calculate == [fname |-> "calculate", body |-> "calculate",
                sig |-> <<Required("a", "float"), Required("b", "float"),
                          Required("operation", "enum")>>]
\* def load(tags: List[int], note)
f_load == [fname |-> "load", body |-> "load",
           sig |-> <<Required("tags", "List[int]"), Required("note", "empty")>>]
\* def f(a: int = 0): return a * 2
f_double_opt == [fname |-> "f", body |-> "double",
                 sig |-> <<Optional("a", "int", IntV(0))>>]

\* a callable object used as a value, e.g. the class list: calling it with
\* no argument returns ret
CallableV(ret) == [tag |-> "callable", n |-> 0, ret |-> ret]
\* def build(x: int, factory=list): return factory
f_build == [fname |-> "build", body |-> "build",
            sig |-> <<Required("x", "int"),
                      Optional("factory", "empty", CallableV([tag |-> "list", n |-> 0]))>>]

\* int(s) on a str: NoValue stands for ValueError
PyInt(v) == IF v.tag = "str" THEN IntV(v.n) ELSE IF v.tag = "int" THEN v ELSE NoValue

\* Calling func(**kwargs) on bridge state b: [raised, value, ctx, hist];
\* value is the returned value, or the exception raised.
CallFunc(func, kwargs, b) ==
    LET ret(v) == [raised |-> FALSE, value |-> v, ctx |-> b.ctx, hist |-> b.hist]
        exc(c) == [raised |-> TRUE, value |-> Exc(c), ctx |-> b.ctx, hist |-> b.hist]
    IN  CASE func.body = "add_positive" ->
                IF kwargs["a"].n < 0 THEN exc("ValueError") ELSE ret(kwargs["a"])
          [] func.body = "fail" -> exc("Exception")
          [] func.body = "add" ->
                IF PyInt(kwargs["a"]) = NoValue \/ PyInt(kwargs["b"]) = NoValue
                THEN exc("ValueError")
                ELSE ret(IntV(PyInt(kwargs["a"]).n + PyInt(kwargs["b"]).n))
          [] func.body = "double" -> ret(IntV(kwargs["a"].n * 2))
          [] func.body = "greet" ->
                ret(IF kwargs["excited"].n # 0 THEN HelloExcited ELSE Hello)
          [] func.body = "build" -> ret(kwargs["factory"])
          [] func.body = "make_and_store_instance" -> make_and_store_instance(func, kwargs, b)
          [] func.body = "method_func" -> method_func(func, kwargs, b)

(***************************************************************************)
(* OutputDestination variants (types.py 192-213, 327-342): the built-in    *)
(* classes define no send method; MyOutput of tests/test_custom_types.py   *)
(* does, and stores the value in the context under "sent".                 *)
(***************************************************************************)
DisplayOutputDestination == [kind |-> "Display", key |-> <<>>]
ContextOutputDestination(key) == [kind |-> "Context", key |-> key]
MyOutput == [kind |-> "MyOutput", key |-> <<"sent">>]

\* hasattr(dest, "send") and callable(dest.send)
HasSend(dest) == dest.kind = "MyOutput"

\* dest.send(value, bridge)
Send(dest, value, b) == update_context(b, dest.key, value)

(***************************************************************************)
(* FunctionMetadata (basic.py 20-235):                                     *)
(*   [name, func, params, output]                                          *)
(* params is the list of (pname, ParamSource) items of self.params in      *)
(* insertion order, each [pname, ps].                                      *)
(***************************************************************************)
Param(pname, ps) == [pname |-> pname, ps |-> ps]

\* One event of the observable log of a call.
Event(ev, idx, arg, meta) == [ev |-> ev, idx |-> idx, arg |-> arg, meta |-> meta.name]

\* mutant: the hook list is walked from its last entry to its first
RECURSIVE RunHooks_reversed(_, _, _, _, _)
RunHooks_reversed(kind, hooks, i, arg, meta) ==
    LET j == Len(hooks) - i + 1
    IN  IF i > Len(hooks) THEN [log |-> <<>>, raised |-> FALSE]
        ELSE IF hooks[j] = "raise"
             THEN [log |-> <<Event(kind, j, arg, meta)>>, raised |-> TRUE]
             ELSE LET rest == RunHooks_reversed(kind, hooks, i + 1, arg, meta)
                  IN  [log |-> <<Event(kind, j, arg, meta)>> \o rest.log,
                       raised |-> rest.raised]

\* for hook in hooks: hook(arg, self) -- a hook is "ok" (returns) or "raise";
\* the loop stops at the first hook that raises.  Hooks are identified by
\* their position in the list, i.e. by registration order.
RECURSIVE RunHooks(_, _, _, _, _)
RunHooks(kind, hooks, i, arg, meta) ==
    IF i > Len(hooks) THEN [log |-> <<>>, raised |-> FALSE]
    ELSE IF hooks[i] = "raise"
         THEN [log |-> <<Event(kind, i, arg, meta)>>, raised |-> TRUE]
         ELSE LET rest == RunHooks(kind, hooks, i + 1, arg, meta)
              IN  [log |-> <<Event(kind, i, arg, meta)>> \o rest.log,
                   raised |-> rest.raised]

\* The state of one call as it moves through __call__: the log so far, the
\* outcome ("running" until the call returns or raises), the params dict,
\* the validated kwargs, the result and the bridge's context and history.
Stop(r, outcome, cause) == [r EXCEPT !.outcome = outcome, !.cause = cause]

\* mutant: the exception of a pre-hook is swallowed and the call goes on
_run_pre_hooks_swallowed(meta, r, bridge) ==
    IF r.outcome # "running" THEN r
    ELSE [r EXCEPT !.log = r.log \o RunHooks("pre", bridge.pre, 1, NoValue, meta).log]

\* _run_pre_hooks
_run_pre_hooks(meta, r, bridge) ==
    IF r.outcome # "running" THEN r
    ELSE LET h == RunHooks("pre", bridge.pre, 1, NoValue, meta)
             r1 == [r EXCEPT !.log = r.log \o h.log]
         IN  IF h.raised THEN Stop(r1, "HookError", Exc("HookError")) ELSE r1

\* mutant: static defaults are written into the mapping as well
_resolve_callable_defaults_all(meta, r) ==
    IF r.outcome # "running" THEN r
    ELSE LET missing(p) == p.pname \notin DOMAIN r.params \/ r.params[p.pname] = None
             supplied == {i \in 1..Len(meta.params) :
                             /\ missing(meta.params[i])
                             /\ HasDefaultAttr(meta.params[i].ps.src)}
             names == {meta.params[i].pname : i \in supplied}
         IN  [r EXCEPT !.params =
                [p \in (DOMAIN r.params) \cup names |->
                    IF p \in names
                    THEN LET i == CHOOSE j \in supplied : meta.params[j].pname = p
                         IN  meta.params[i].ps.dflt.v
                    ELSE r.params[p]]]

\* _resolve_callable_defaults
_resolve_callable_defaults(meta, r) ==
    IF r.outcome # "running" THEN r
    ELSE LET missing(p) == p.pname \notin DOMAIN r.params \/ r.params[p.pname] = None
             \* getattr(meta, "default", None) is callable
             produced == {i \in 1..Len(meta.params) :
                             /\ missing(meta.params[i])
                             /\ HasDefaultAttr(meta.params[i].ps.src)
                             /\ meta.params[i].ps.dflt.kind = "callable"}
             names == {meta.params[i].pname : i \in produced}
         IN  [r EXCEPT !.params =
                [p \in (DOMAIN r.params) \cup names |->
                    IF p \in names
                    THEN LET i == CHOOSE j \in produced : meta.params[j].pname = p
                         IN  meta.params[i].ps.dflt.v
                    ELSE r.params[p]]]

\* _run_param_validators, from parameter i on
RECURSIVE RunValidators(_, _, _)
RunValidators(meta, r, i) ==
    IF i > Len(meta.params) THEN r
    ELSE LET p == meta.params[i]
         IN  IF HasValidatorAttr(p.ps.src) /\ p.ps.validator # "none"
             THEN IF ~HasDefaultAttr(p.ps.src)
                  \* params.get(pname, meta.default) evaluates meta.default
                  THEN Stop(r, "AttributeError", Exc("AttributeError"))
                  ELSE LET dv == IF p.ps.dflt.kind = "callable"
                                 THEN [tag |-> "callable", n |-> 0] ELSE p.ps.dflt.v
                           value == DictGet(r.params, p.pname, dv)
                           verdict == CallValidator(p.ps.validator, value)
                           r1 == [r EXCEPT !.log = Append(r.log, Event("validator", i, value, meta))]
                       IN  IF verdict = "true"
                           THEN RunValidators(meta, r1, i + 1)
                           ELSE Stop(r1, "BridgeValidationError",
                                     IF verdict = "false" THEN Exc("BridgeValidationError")
                                     ELSE Exc("TypeError"))
             ELSE RunValidators(meta, r, i + 1)

\* mutant: the custom validators are not run
_run_param_validators_skipped(meta, r) == r

_run_param_validators(meta, r) ==
    IF r.outcome # "running" THEN r ELSE RunValidators(meta, r, 1)

\* mutant: a schema failure is raised without telling the error hooks
_validate_params_silent(meta, r, bridge) ==
    IF r.outcome # "running" THEN r
    ELSE IF SchemaFails(meta.func.sig, r.params)
         THEN Stop(r, "BridgeValidationError", Exc("ValidationError"))
         ELSE [r EXCEPT !.validated = ModelDump(meta.func.sig, r.params)]

\* mutant: error hooks that return normally suppress the schema failure
_validate_params_suppressed(meta, r, bridge) ==
    IF r.outcome # "running" THEN r
    ELSE IF SchemaFails(meta.func.sig, r.params)
         THEN LET h == RunHooks("error", bridge.err, 1, Exc("ValidationError"), meta)
                  r1 == [r EXCEPT !.log = r.log \o h.log]
              IN  IF h.raised THEN Stop(r1, "HookError", Exc("HookError"))
                  ELSE IF bridge.err # <<>> THEN Stop(r1, "ok", NoValue)
                  ELSE Stop(r1, "BridgeValidationError", Exc("ValidationError"))
         ELSE [r EXCEPT !.validated = ModelDump(meta.func.sig, r.params)]

\* _validate_params
_validate_params(meta, r, bridge) ==
    IF r.outcome # "running" THEN r
    ELSE IF SchemaFails(meta.func.sig, r.params)
         THEN LET h == RunHooks("error", bridge.err, 1, Exc("ValidationError"), meta)
                  r1 == [r EXCEPT !.log = r.log \o h.log]
              IN  IF h.raised THEN Stop(r1, "HookError", Exc("HookError"))
                  ELSE Stop(r1, "BridgeValidationError", Exc("ValidationError"))
         ELSE [r EXCEPT !.validated = ModelDump(meta.func.sig, r.params)]

\* mutant: an execution failure is raised without telling the error hooks
_execute_function_silent(meta, r, bridge) ==
    IF r.outcome # "running" THEN r
    ELSE LET c == CallFunc(meta.func, r.validated, [ctx |-> r.ctx, hist |-> r.hist])
             r1 == [r EXCEPT !.log = Append(r.log, Event("call", 0, NoValue, meta)),
                             !.ctx = c.ctx, !.hist = c.hist]
         IN  IF c.raised THEN Stop(r1, "BridgeExecutionError", c.value)
             ELSE [r1 EXCEPT !.result = c.value]

\* mutant: the exception of an error hook is swallowed and the classified
\* error is raised all the same
_execute_function_masked(meta, r, bridge) ==
    IF r.outcome # "running" THEN r
    ELSE LET c == CallFunc(meta.func, r.validated, [ctx |-> r.ctx, hist |-> r.hist])
             r1 == [r EXCEPT !.log = Append(r.log, Event("call", 0, NoValue, meta)),
                             !.ctx = c.ctx, !.hist = c.hist]
         IN  IF c.raised
             THEN LET h == RunHooks("error", bridge.err, 1, c.value, meta)
                  IN  Stop([r1 EXCEPT !.log = r1.log \o h.log], "BridgeExecutionError", c.value)
             ELSE [r1 EXCEPT !.result = c.value]

\* _execute_function
_execute_function(meta, r, bridge) ==
    IF r.outcome # "running" THEN r
    ELSE LET c == CallFunc(meta.func, r.validated, [ctx |-> r.ctx, hist |-> r.hist])
             r1 == [r EXCEPT !.log = Append(r.log, Event("call", 0, NoValue, meta)),
                             !.ctx = c.ctx, !.hist = c.hist]
         IN  IF c.raised
             THEN LET h == RunHooks("error", bridge.err, 1, c.value, meta)
                      r2 == [r1 EXCEPT !.log = r1.log \o h.log]
                  IN  IF h.raised THEN Stop(r2, "HookError", Exc("HookError"))
                      ELSE Stop(r2, "BridgeExecutionError", c.value)
             ELSE [r1 EXCEPT !.result = c.value]

\* _handle_output_destinations, from destination j on
RECURSIVE SendAll(_, _, _)
SendAll(meta, r, j) ==
    IF j > Len(meta.output) THEN r
    ELSE IF HasSend(meta.output[j])
         THEN LET b == Send(meta.output[j], r.result, [ctx |-> r.ctx, hist |-> r.hist])
              IN  SendAll(meta,
                          [r EXCEPT !.log = Append(r.log, Event("send", j, r.result, meta)),
                                    !.ctx = b.ctx, !.hist = b.hist],
                          j + 1)
         ELSE SendAll(meta, r, j + 1)

\* mutant: the destinations are sent to whether or not the function returned
_handle_output_destinations_always(meta, r) == SendAll(meta, r, 1)

_handle_output_destinations(meta, r) ==
    IF r.outcome # "running" THEN r ELSE SendAll(meta, r, 1)

\* _run_post_hooks
_run_post_hooks(meta, r, bridge) ==
    IF r.outcome # "running" THEN r
    ELSE LET h == RunHooks("post", bridge.post, 1, r.result, meta)
             r1 == [r EXCEPT !.log = r.log \o h.log]
         IN  IF h.raised THEN Stop(r1, "HookError", Exc("HookError")) ELSE r1

\* mutant: the commands synthesized for a class run without the bridge's hooks
__call___synthesized_unhooked(meta, params, bridge) ==
    LET own == IF meta.func.body \in {"make_and_store_instance", "method_func"}
               THEN [bridge EXCEPT !.pre = <<>>, !.post = <<>>, !.err = <<>>]
               ELSE bridge
        r0 == [log |-> <<>>, outcome |-> "running", cause |-> NoValue,
               params |-> params, validated |-> EmptyDict, result |-> NoValue,
               ctx |-> bridge.ctx, hist |-> bridge.hist]
        r7 == _run_post_hooks(meta,
                _handle_output_destinations(meta,
                  _execute_function(meta,
                    _validate_params(meta,
                      _run_param_validators(meta,
                        _resolve_callable_defaults(meta, _run_pre_hooks(meta, r0, own))),
                      own),
                    own)),
                own)
    IN  IF r7.outcome = "running" THEN [r7 EXCEPT !.outcome = "ok"] ELSE r7

\* FunctionMetadata.__call__(params) on a bridge [ctx, hist, pre, post, err]
__call__(meta, params, bridge) ==
    LET r0 == [log |-> <<>>, outcome |-> "running", cause |-> NoValue,
               params |-> params, validated |-> EmptyDict, result |-> NoValue,
               ctx |-> bridge.ctx, hist |-> bridge.hist]
        r1 == _run_pre_hooks(meta, r0, bridge)
        r2 == _resolve_callable_defaults(meta, r1)
        r3 == _run_param_validators(meta, r2)
        r4 == _validate_params(meta, r3, bridge)
        r5 == _execute_function(meta, r4, bridge)
        r6 == _handle_output_destinations(meta, r5)
        r7 == _run_post_hooks(meta, r6, bridge)
    IN  IF r7.outcome = "running" THEN [r7 EXCEPT !.outcome = "ok"] ELSE r7

\* FunctionMetadata.__init__ with explicit params and a list of outputs
FunctionMetadata(func, name, params, output) ==
    [name |-> IF name = "" THEN func.fname ELSE name,
     func |-> func, params |-> params, output |-> output]

(***************************************************************************)
(* Automatic parameter resolution: FunctionMetadata.__init__ without       *)
(* params (basic.py 57-74).  Annotations of the model: "int", "str",       *)
(* "bool", "float", "empty" (none), "enum" (an Enum subclass), "List[int]" *)
(* and "TextIO".                                                           *)
(***************************************************************************)
\* ParamSource.__subclasses__(): the direct subclasses in the order types.py
\* defines them (lines 45, 93, 158, 216, 286)
Subclasses == <<"Input", "Menu", "Context", "List", "File">>

\* source_cls.supports(annotation, param): "true", "false" or "raise"
supports(source_cls, annotation) ==
    CASE source_cls = "Input" -> "true"
      [] source_cls = "Menu" ->
            \* annotation and ... and issubclass(annotation, Enum): None is
            \* falsy, a typing generic is no class (TypeError)
            IF annotation = "empty" THEN "false"
            ELSE IF annotation = "List[int]" THEN "raise"
            ELSE IF annotation = "enum" THEN "true" ELSE "false"
      [] source_cls = "List" -> IF annotation = "List[int]" THEN "true" ELSE "false"
      [] source_cls = "File" -> IF annotation = "TextIO" THEN "true" ELSE "false"
      [] OTHER -> "false"     \* ContextParamSource, and ParamSource.supports

\* the empty list
EmptyList == [tag |-> "list", n |-> 0]

\* source_cls.from_param(annotation, param, None); ContextParamSource returns
\* None, which is what "NoneType" stands for
from_param(source_cls, param) ==
    LET default == IF param.req THEN None ELSE param.dflt
        \* self.default = default: a callable object stored there is a producer
        attr == IF default.tag = "callable" THEN Producer(default.ret) ELSE Static(default)
    IN  CASE source_cls = "Input" -> InputParamSource(attr, "none")
          [] source_cls = "Menu" ->
                [src |-> "Menu", validator |-> "none", dflt |-> attr]
          [] source_cls = "List" ->
                [src |-> "List", validator |-> "none", dflt |-> Static(EmptyList)]
          [] source_cls = "File" ->
                [src |-> "File", validator |-> "none", dflt |-> Static(None)]
          [] OTHER -> [src |-> "NoneType", validator |-> "none", dflt |-> Static(None)]

\* for source_cls in ParamSource.__subclasses__(): if source_cls.supports(...):
\*     self.params[pname] = source_cls.from_param(...); break
\* from class i of the list on; src "TypeError": supports raised, src "":
\* no class took the parameter and it gets no entry
RECURSIVE ResolveFrom(_, _, _)
ResolveFrom(classes, i, param) ==
    IF i > Len(classes) THEN [src |-> "", validator |-> "none", dflt |-> Static(None)]
    ELSE LET verdict == supports(classes[i], param.ann)
         IN  IF verdict = "raise"
             THEN [src |-> "TypeError", validator |-> "none", dflt |-> Static(None)]
             ELSE IF verdict = "true" THEN from_param(classes[i], param)
             ELSE ResolveFrom(classes, i + 1, param)

\* mutant: a parameter without annotation is taken from the context
ResolveParam_context(param) ==
    IF param.ann = "empty"
    THEN [src |-> "Context", validator |-> "none", dflt |-> Static(None)]
    ELSE ResolveFrom(Subclasses, 1, param)

ResolveParam(param) == ResolveFrom(Subclasses, 1, param)

\* self.params after the loop over sig.parameters.items()
AutoParams(func) ==
    LET all == [i \in 1..Len(func.sig) |-> Param(func.sig[i].pname, ResolveParam(func.sig[i]))]
    IN  SelectSeq(all, LAMBDA q : q.ps.src # "")

\* FunctionMetadata.__init__ with params=None
FunctionMetadataAuto(func, name, output) ==
    FunctionMetadata(func, name, AutoParams(func), output)

(***************************************************************************)
(* The registrations the model draws from.                                 *)
(***************************************************************************)
\* register(add_positive, params={"a": InputParamSource()},
\*          output=[DisplayOutputDestination(), MyOutput()])
m_add_positive ==
    FunctionMetadata(f_add_positive, "",
                     <<Param("a", InputParamSource(Static(None), "none"))>>,
                     <<DisplayOutputDestination, MyOutput>>)
\* register(add_positive, name="checked",
\*          params={"a": InputParamSource(validator=lambda v: v > 0)}, output=MyOutput())
m_checked ==
    FunctionMetadata(f_add_positive, "checked",
                     <<Param("a", InputParamSource(Static(None), "positive"))>>,
                     <<MyOutput>>)
\* register(add, params={"a": InputParamSource(), "b": InputParamSource()},
\*          output=DisplayOutputDestination())
m_add ==
    FunctionMetadata(f_add, "",
                     <<Param("a", InputParamSource(Static(None), "none")),
                       Param("b", InputParamSource(Static(None), "none"))>>,
                     <<DisplayOutputDestination>>)
\* register(f, params={"a": MyParam()}, output=MyOutput())
m_double ==
    FunctionMetadata(f_double, "", <<Param("a", MyParam)>>, <<MyOutput>>)

(***************************************************************************)
(* The commands register_class synthesizes for a stateful class.           *)
(***************************************************************************)
\* f"create_{cls.__name__.lower()}_instance"
ConstructorName(cls) ==
    IF Lower(cls.cname) = "counter" THEN "create_counter_instance"
    ELSE "create_basket_instance"
\* f"{cls.__name__}.{method_name}"
MethodName(cls, method_name) ==
    CASE cls.cname = "Counter" /\ method_name = "increment" -> "Counter.increment"
      [] cls.cname = "Counter" /\ method_name = "reset" -> "Counter.reset"
      [] cls.cname = "Basket" /\ method_name = "add" -> "Basket.add"
      [] cls.cname = "Basket" /\ method_name = "take" -> "Basket.take"

\* inspect.Parameter("instance_name", KEYWORD_ONLY, default=None, annotation=str)
InstanceNameParam == Optional("instance_name", "str", None)

\* _register_stateful_constructor: the metadata it registers
StatefulConstructor(cls, params, output, key) ==
    FunctionMetadata([fname |-> "make_and_store_instance",
                      body |-> "make_and_store_instance",
                      sig |-> cls.init \o <<InstanceNameParam>>,
                      cls |-> cls, key |-> key, mname |-> ""],
                     ConstructorName(cls), params, output)

\* _register_stateful_methods: the metadata it registers for one method,
\* method = [name, params, output]
StatefulMethod(cls, method, key) ==
    FunctionMetadata([fname |-> "method_func", body |-> "method_func",
                      sig |-> cls.msigs[method.name] \o <<InstanceNameParam>>,
                      cls |-> cls, key |-> key, mname |-> method.name],
                     MethodName(cls, method.name), method.params, method.output)

\* the registrations of the model: register_class(cls, params=..., output=display,
\* methods=[...], context_key=...) as in tests/test_core_basic.py
NameSource == Param("instance_name", InputParamSource(Static(None), "none"))
Display == <<DisplayOutputDestination>>
CounterClass(context_key) ==
    [cls |-> Counter,
     params |-> <<Param("start", InputParamSource(Static(IntV(0)), "none")), NameSource>>,
     output |-> Display,
     methods |-> <<[name |-> "increment",
                    params |-> <<Param("amount", InputParamSource(Static(IntV(1)), "none")),
                                 NameSource>>,
                    output |-> Display],
                   [name |-> "reset", params |-> <<NameSource>>, output |-> Display]>>,
     context_key |-> context_key]
BasketClass ==
    [cls |-> Basket,
     params |-> <<Param("size", InputParamSource(Static(IntV(0)), "none")), NameSource>>,
     output |-> Display,
     methods |-> <<[name |-> "add",
                    params |-> <<Param("item", InputParamSource(Static(None), "none")),
                                 NameSource>>,
                    output |-> Display],
                   [name |-> "take", params |-> <<NameSource>>, output |-> Display]>>,
     context_key |-> <<>>]

\* the values tried for one parameter of a synthesized command; NoValue:
\* the parameter is left out of the input mapping
ArgChoices(pname) ==
    CASE pname = "instance_name" -> {NoValue, Foo, Bar}
      [] pname = "start" -> {IntV(0)}
      [] pname = "amount" -> {IntV(1)}
      [] pname = "size" -> {IntV(0), IntV(1), IntV(-1), Txt}
      [] OTHER -> {IntV(1)}
StatefulInputs(sig) ==
    LET names == {sig[i].pname : i \in 1..Len(sig)}
        full == {f \in [names -> {NoValue, Foo, Bar, IntV(0), IntV(1), IntV(-1), Txt}] :
                    \A p \in names : f[p] \in ArgChoices(p)}
    IN  {[p \in {q \in names : f[q] # NoValue} |-> f[p]] : f \in full}

\* register(greet, output=DisplayOutputDestination())
m_greet == FunctionMetadataAuto(f_greet, "", <<DisplayOutputDestination>>)
\* register(calculate)
m_calculate == FunctionMetadataAuto(f_calculate, "", <<>>)
\* register(load)
m_load == FunctionMetadataAuto(f_load, "", <<>>)
\* register(build)
m_build == FunctionMetadataAuto(f_build, "", <<>>)
\* register(f, name="defaulted"), f declaring a: int = 0
m_defaulted == FunctionMetadataAuto(f_double_opt, "defaulted", <<>>)
\* register(add, params={"a": InputParamSource()})
m_add_partial ==
    FunctionMetadata(f_add, "", <<Param("a", InputParamSource(Static(None), "none"))>>, <<>>)
\* register(f, name="produced", params={"a": InputParamSource(default=lambda: 1)})
m_produced ==
    FunctionMetadata(f_double, "produced",
                     <<Param("a", InputParamSource(Producer(IntV(1)), "none"))>>, <<>>)
\* register(f, name="static", params={"a": InputParamSource(default=1)})
m_static ==
    FunctionMetadata(f_double, "static",
                     <<Param("a", InputParamSource(Static(IntV(1)), "none"))>>, <<>>)
\* register(f, name="shadowed", params={"a": InputParamSource(default=1)}),
\* f declaring a: int = 0
m_shadowed ==
    FunctionMetadata(f_double_opt, "shadowed",
                     <<Param("a", InputParamSource(Static(IntV(1)), "none"))>>, <<>>)

\* the other built-in sources that take a validator
MenuParamSource(dflt, validator) ==
    [src |-> "Menu", validator |-> validator, dflt |-> dflt]
ListParamSource(validator) ==
    [src |-> "List", validator |-> validator, dflt |-> Static(EmptyList)]
\* FileParamSource.__init__ sets mode, description and validator, no default
FileParamSource(validator) ==
    [src |-> "File", validator |-> validator, dflt |-> Static(None)]
ParameterMetadata(dflt, validator) ==
    [src |-> "Meta", validator |-> validator, dflt |-> dflt]
\* register(add_positive, name=<variant>, params={"a": <variant>(validator=lambda v: v > 0)})
m_menu_checked ==
    FunctionMetadata(f_add_positive, "menu_checked",
                     <<Param("a", MenuParamSource(Static(None), "positive"))>>, <<>>)
m_list_checked ==
    FunctionMetadata(f_add_positive, "list_checked",
                     <<Param("a", ListParamSource("positive"))>>, <<>>)
m_file_checked ==
    FunctionMetadata(f_add_positive, "file_checked",
                     <<Param("a", FileParamSource("positive"))>>, <<>>)
m_meta_checked ==
    FunctionMetadata(f_add_positive, "meta_checked",
                     <<Param("a", ParameterMetadata(Static(None), "positive"))>>, <<>>)

\* register(f, name="saved", params={"a": InputParamSource()},
\*          output=ContextOutputDestination("saved"))
m_saved ==
    FunctionMetadata(f_double, "saved",
                     <<Param("a", InputParamSource(Static(None), "none"))>>,
                     <<ContextOutputDestination(<<"saved">>)>>)
\* register(f, name="kept", params={"a": InputParamSource()},
\*          output=[ContextOutputDestination("saved"), MyOutput()])
m_kept ==
    FunctionMetadata(f_double, "kept",
                     <<Param("a", InputParamSource(Static(None), "none"))>>,
                     <<ContextOutputDestination(<<"saved">>), MyOutput>>)

\* the raw input mappings tried on a command
ArgValues == {IntV(-1), IntV(1), NumStr(1), Txt}
Inputs(meta) ==
    IF meta.func.body \in {"make_and_store_instance", "method_func"}
    THEN StatefulInputs(meta.func.sig)
    ELSE IF meta.func.body = "greet"
    THEN {EmptyDict, [p \in {"name"} |-> Txt],
          [p \in {"name", "excited"} |-> IF p = "name" THEN Txt ELSE BoolV(TRUE)]}
    ELSE IF meta.func.body \in {"calculate", "load"}
    THEN {EmptyDict}
    ELSE IF meta.func.body = "build"
    THEN {EmptyDict, [p \in {"x"} |-> IntV(1)]}
    ELSE IF meta.name \in {"produced", "static", "shadowed"}
    THEN {EmptyDict} \cup {[p \in {"a"} |-> v] : v \in {None, IntV(2)}}
    ELSE IF meta.func.body = "add"
    THEN {EmptyDict} \cup {[p \in {"a"} |-> v] : v \in {NumStr(1)}}
         \cup {[p \in {"a", "b"} |-> IF p = "a" THEN v ELSE w] :
                 v \in {NumStr(1), Txt}, w \in {NumStr(1), Txt}}
    ELSE {EmptyDict} \cup {[p \in {"a"} |-> v] : v \in ArgValues}

(***************************************************************************)
(* The state machine.                                                      *)
(***************************************************************************)
\* what the caller of an operation observed
Observed(op, name, input, key, index, outcome, cause, log, result) ==
    [op |-> op, name |-> name, input |-> input, key |-> key, index |-> index,
     outcome |-> outcome, cause |-> cause, log |-> log, result |-> result]

Now == [ctx |-> context, hist |-> context_history]

\* Bridge.__init__
Init ==
    /\ functions = EmptyDict
    /\ context = EmptyDict
    /\ context_history = <<deepcopy(EmptyDict)>>
    /\ pre_hooks = <<>>
    /\ post_hooks = <<>>
    /\ error_hooks = <<>>
    /\ last = Observed("init", "", EmptyDict, <<>>, 0, "ok", NoValue, <<>>, NoValue)
    /\ before = [ctx |-> EmptyDict, hist |-> <<>>]
    /\ n_updates = 0
    /\ loop = "idle"

NumHooks == Len(pre_hooks) + Len(post_hooks) + Len(error_hooks)
\* a hook callable either returns or raises
HookKinds == {"ok", "raise"}

\* Bridge.add_pre_hook
add_pre_hook(hook) ==
    /\ NumHooks < MaxHooks
    /\ pre_hooks' = Append(pre_hooks, hook)
    /\ last' = Observed("add_pre_hook", "", EmptyDict, <<>>, 0, "ok", NoValue, <<>>, NoValue)
    /\ before' = Now
    /\ UNCHANGED loop
    /\ UNCHANGED <<functions, context, context_history, post_hooks, error_hooks, n_updates>>

\* Bridge.add_post_hook
add_post_hook(hook) ==
    /\ NumHooks < MaxHooks
    /\ post_hooks' = Append(post_hooks, hook)
    /\ last' = Observed("add_post_hook", "", EmptyDict, <<>>, 0, "ok", NoValue, <<>>, NoValue)
    /\ before' = Now
    /\ UNCHANGED loop
    /\ UNCHANGED <<functions, context, context_history, pre_hooks, error_hooks, n_updates>>

\* Bridge.add_error_hook
add_error_hook(hook) ==
    /\ NumHooks < MaxHooks
    /\ error_hooks' = Append(error_hooks, hook)
    /\ last' = Observed("add_error_hook", "", EmptyDict, <<>>, 0, "ok", NoValue, <<>>, NoValue)
    /\ before' = Now
    /\ UNCHANGED loop
    /\ UNCHANGED <<functions, context, context_history, pre_hooks, post_hooks, n_updates>>

\* Bridge.register: self.functions[metadata.name] = metadata
register(meta) ==
    /\ functions' = DictSet(functions, meta.name, meta)
    \* return metadata
    /\ last' = Observed("register", meta.name, EmptyDict, <<>>, 0, "ok", NoValue, <<>>, meta)
    /\ before' = Now
    /\ UNCHANGED loop
    /\ UNCHANGED <<context, context_history, pre_hooks, post_hooks, error_hooks, n_updates>>

\* bridge.functions[name](params): the execution pipeline
invoke(name, params) ==
    LET r == __call__(functions[name], params,
                      [ctx |-> context, hist |-> context_history,
                       pre |-> pre_hooks, post |-> post_hooks, err |-> error_hooks])
    IN  /\ Len(r.hist) <= MaxHistory
        /\ context' = r.ctx
        /\ context_history' = r.hist
        /\ last' = Observed("invoke", name, params, <<>>, 0, r.outcome, r.cause, r.log, r.result)
        /\ before' = Now
        /\ UNCHANGED loop
        /\ n_updates' = -1
        /\ UNCHANGED <<functions, pre_hooks, post_hooks, error_hooks>>

\* mutant: calling the handle's func goes through the pipeline
DirectCall_piped(meta, kwargs, bridge) ==
    LET r == __call__(meta, kwargs, bridge)
    IN  [outcome |-> r.outcome, cause |-> r.cause, log |-> r.log, result |-> r.result,
         ctx |-> r.ctx, hist |-> r.hist]

\* meta.func(**kwargs): the plain Python call of the registered function.
\* Binding fails with TypeError when a parameter without default is left
\* out; otherwise the declared defaults are bound and the body runs.
DirectCall(meta, kwargs, bridge) ==
    LET sig == meta.func.sig
        unbound == \E i \in 1..Len(sig) : sig[i].req /\ sig[i].pname \notin DOMAIN kwargs
        bound == [p \in {sig[i].pname : i \in 1..Len(sig)} |->
                    IF p \in DOMAIN kwargs THEN kwargs[p]
                    ELSE LET i == CHOOSE j \in 1..Len(sig) : sig[j].pname = p
                         IN  sig[i].dflt]
        \* add_positive compares a with 0: a str or None operand raises TypeError
        illtyped == /\ meta.func.body = "add_positive"
                    /\ bound["a"].tag \notin {"int", "bool"}
        c == CallFunc(meta.func, bound, [ctx |-> bridge.ctx, hist |-> bridge.hist])
    IN  IF unbound \/ illtyped
        THEN [outcome |-> "TypeError", cause |-> Exc("TypeError"), log |-> <<>>,
              result |-> NoValue, ctx |-> bridge.ctx, hist |-> bridge.hist]
        ELSE IF c.raised
        THEN [outcome |-> c.value.tag, cause |-> c.value, log |-> <<>>,
              result |-> NoValue, ctx |-> c.ctx, hist |-> c.hist]
        ELSE [outcome |-> "ok", cause |-> NoValue, log |-> <<>>,
              result |-> c.value, ctx |-> c.ctx, hist |-> c.hist]

\* the keyword arguments tried on a direct call of add_positive
DirectArgs == {EmptyDict} \cup {[p \in {"a"} |-> v] : v \in {IntV(-1), IntV(0), IntV(1)}}

\* bridge.functions[name].func(**kwargs)
call_func(name, kwargs) ==
    LET r == DirectCall(functions[name], kwargs,
                        [ctx |-> context, hist |-> context_history,
                         pre |-> pre_hooks, post |-> post_hooks, err |-> error_hooks])
    IN  /\ context' = r.ctx
        /\ context_history' = r.hist
        /\ last' = Observed("func", name, kwargs, <<>>, 0, r.outcome, r.cause, r.log, r.result)
        /\ before' = Now
        /\ UNCHANGED loop
        /\ n_updates' = -1
        /\ UNCHANGED <<functions, pre_hooks, post_hooks, error_hooks>>

(***************************************************************************)
(* The front-end command loops: CLI (interfaces/cli/core.py) and           *)
(* MinimalCLI (core/cli.py).  One action is one turn of the while loop of  *)
(* run() on the name of a registered command; the lines the user types at  *)
(* the parameter prompts are the action's input, NoValue being an empty    *)
(* line.  The commands of the model take their parameters from Input       *)
(* sources.                                                                *)
(***************************************************************************)
FrontEnds == {"CLI", "MinimalCLI"}

\* the lines typed at the prompt of one parameter
Typed(pname) ==
    CASE pname = "instance_name" -> {NoValue}
      [] pname = "start" -> {NoValue}
      [] pname = "amount" -> {NoValue, NumStr(1)}
      [] OTHER -> {NoValue, NumStr(1), NumStr(-1), Txt}
Answers(meta) ==
    LET names == {meta.params[i].pname : i \in 1..Len(meta.params)}
    IN  {f \in [names -> {NoValue, NumStr(1), NumStr(-1), Txt}] :
            \A p \in names : f[p] \in Typed(p)}

\* ParameterCollector.collect_parameters / _collect_input_param: a typed
\* value is passed on as the string it is; an empty line gives the source's
\* default when that is not None, and no entry otherwise
collect_parameters(meta, answers) ==
    LET given(i) == LET p == meta.params[i]
                    IN  IF answers[p.pname] # NoValue THEN answers[p.pname]
                        ELSE IF HasDefaultAttr(p.ps.src) /\ p.ps.dflt.v # None
                        THEN p.ps.dflt.v
                        ELSE NoValue
        filled == {i \in 1..Len(meta.params) : given(i) # NoValue}
    IN  [p \in {meta.params[i].pname : i \in filled} |->
            given(CHOOSE i \in filled : meta.params[i].pname = p)]

\* MinimalCLI._prompt_for_param: an empty line gives the source's default;
\* int(val) when the parameter is annotated int and the conversion works
_prompt_for_param(psource, ptype, typed) ==
    LET val == IF typed = NoValue /\ HasDefaultAttr(psource.src) THEN psource.dflt.v
               ELSE typed
    IN  IF ptype = "int" /\ val.tag = "str" THEN IntV(val.n) ELSE val

\* MinimalCLI._collect_parameters: every key of meta.params gets an entry
_collect_parameters(meta, answers) ==
    [p \in {meta.params[i].pname : i \in 1..Len(meta.params)} |->
        LET i == CHOOSE j \in 1..Len(meta.params) : meta.params[j].pname = p
            k == CHOOSE j \in 1..Len(meta.func.sig) : meta.func.sig[j].pname = p
        IN  _prompt_for_param(meta.params[i].ps, meta.func.sig[k].ann, answers[p])]

\* CLI.run / MinimalCLI.run up to the first prompt: CLI.run returns at once
\* when no function is registered
run(frontend) ==
    /\ loop = "idle"
    /\ loop' = IF frontend = "CLI" /\ DOMAIN functions = {} THEN "idle" ELSE frontend
    /\ last' = Observed("run", frontend, EmptyDict, <<>>, 0, "ok", NoValue, <<>>, NoValue)
    /\ before' = Now
    /\ UNCHANGED <<functions, context, context_history, pre_hooks, post_hooks,
                   error_hooks, n_updates>>

\* the user leaves the loop with quit / exit
quit ==
    /\ loop \in FrontEnds
    /\ loop' = "idle"
    /\ last' = Observed("quit", loop, EmptyDict, <<>>, 0, "ok", NoValue, <<>>, NoValue)
    /\ before' = Now
    /\ UNCHANGED <<functions, context, context_history, pre_hooks, post_hooks,
                   error_hooks, n_updates>>

\* CLI._handle_command -> _execute_function_command(cmd) in the try of run:
\*     try: result = func_meta(params); display_result(result)
\*     except Exception as e: print(...)
CLI_execute_function_command(name, answers) ==
    LET params == collect_parameters(functions[name], answers)
        r == __call__(functions[name], params,
                      [ctx |-> context, hist |-> context_history,
                       pre |-> pre_hooks, post |-> post_hooks, err |-> error_hooks])
    IN  /\ loop = "CLI"
        /\ loop' = "CLI"
        /\ context' = r.ctx
        /\ context_history' = r.hist
        /\ last' = Observed("command", name, params, <<>>, 0, r.outcome, r.cause, r.log,
                            IF r.outcome = "ok" THEN r.result ELSE NoValue)
        /\ before' = Now
        /\ n_updates' = -1
        /\ UNCHANGED <<functions, pre_hooks, post_hooks, error_hooks>>

\* MinimalCLI._handle_command in the try of run, which catches
\* KeyboardInterrupt only:
\*     params = self._collect_parameters(meta); result = meta.func(**params)
MinimalCLI_handle_command(name, answers) ==
    LET params == _collect_parameters(functions[name], answers)
        r == DirectCall(functions[name], params,
                        [ctx |-> context, hist |-> context_history,
                         pre |-> pre_hooks, post |-> post_hooks, err |-> error_hooks])
    IN  /\ loop = "MinimalCLI"
        /\ loop' = IF r.outcome = "ok" THEN "MinimalCLI" ELSE "left"
        /\ context' = r.ctx
        /\ context_history' = r.hist
        /\ last' = Observed("command", name, params, <<>>, 0, r.outcome, r.cause, r.log,
                            r.result)
        /\ before' = Now
        /\ n_updates' = -1
        /\ UNCHANGED <<functions, pre_hooks, post_hooks, error_hooks>>

UserKeys == {<<"a">>, <<"b">>}
UserValues == {IntV(1), IntV(2)}

\* bridge.update_context(key, value)
UpdateContext(key, value) ==
    LET b == update_context(Now, key, value)
    IN  /\ Len(b.hist) <= MaxHistory
        /\ context' = b.ctx
        /\ context_history' = b.hist
        /\ last' = Observed("update_context", "", EmptyDict, key, 0, "ok", NoValue, <<>>, value)
        /\ before' = Now
        /\ UNCHANGED loop
        /\ n_updates' = IF n_updates >= 0 THEN n_updates + 1 ELSE -1
        /\ UNCHANGED <<functions, pre_hooks, post_hooks, error_hooks>>

\* bridge.clear_context()
ClearContext ==
    LET b == clear_context(Now)
    IN  /\ context' = b.ctx
        /\ context_history' = b.hist
        /\ last' = Observed("clear_context", "", EmptyDict, <<>>, 0, "ok", NoValue, <<>>, NoValue)
        /\ before' = Now
        /\ UNCHANGED loop
        /\ n_updates' = -1
        /\ UNCHANGED <<functions, pre_hooks, post_hooks, error_hooks>>

\* bridge.restore_context(index)
RestoreContext(index) ==
    LET b == restore_context(Now, index)
    IN  /\ Len(b.hist) <= MaxHistory
        /\ context' = b.ctx
        /\ context_history' = b.hist
        /\ last' = Observed("restore_context", "", EmptyDict, <<>>, index,
                            IF b.raised THEN "IndexError" ELSE "ok",
                            IF b.raised THEN Exc("IndexError") ELSE NoValue, <<>>, NoValue)
        /\ before' = Now
        /\ UNCHANGED loop
        /\ n_updates' = -1
        /\ UNCHANGED <<functions, pre_hooks, post_hooks, error_hooks>>

Invocation == \E name \in DOMAIN functions : \E params \in Inputs(functions[name]) :
                  invoke(name, params)

\* The versioned context, with a command that writes to it and one that
\* does not.
CtxCatalogue == {m_double, m_add}
Next ==
    \/ \E meta \in CtxCatalogue : register(meta)
    \/ Invocation
    \/ \E key \in UserKeys, value \in UserValues : UpdateContext(key, value)
    \/ ClearContext
    \/ \E index \in -1..(MaxHistory + 1) : RestoreContext(index)

Spec == Init /\ [][Next]_vars

\* Bridge.register_class(cls, params, output, methods, stateless=False,
\* context_key): the constructor command, then one command per method
RECURSIVE RegisterMethods(_, _, _, _, _)
RegisterMethods(fns, cls, methods, key, i) ==
    IF i > Len(methods) THEN fns
    ELSE LET m == StatefulMethod(cls, methods[i], key)
         IN  RegisterMethods(DictSet(fns, m.name, m), cls, methods, key, i + 1)

register_class(c) ==
    LET key == BaseKey(c.cls, c.context_key)
        ctor == StatefulConstructor(c.cls, c.params, c.output, key)
    IN  /\ functions' = RegisterMethods(DictSet(functions, ctor.name, ctor),
                                        c.cls, c.methods, key, 1)
        /\ last' = Observed("register_class", ctor.name, EmptyDict, key, 0, "ok",
                            NoValue, <<>>, NoValue)
        /\ before' = Now
        /\ UNCHANGED loop
        /\ UNCHANGED <<context, context_history, pre_hooks, post_hooks, error_hooks,
                       n_updates>>

\* A bridge with one stateful class: its commands are invoked while the
\* bounds on constructor calls and on the numbers stored allow.
BoundedInvocation ==
    /\ Invocation
    /\ Len(context_history') <= MaxInstances + 1
    /\ \A k \in DOMAIN context' : context'[k].n <= MaxCount
NextClasses(classes) ==
    \/ \E c \in classes : register_class(c)
    \/ BoundedInvocation

\* Counter under its default key
SpecObj == Init /\ [][NextClasses({CounterClass(<<>>)})]_vars
\* Counter under the key "ctr"
SpecKey == Init /\ [][NextClasses({CounterClass(<<"ctr">>)})]_vars
\* a class whose instances can be empty
SpecBasket == Init /\ [][NextClasses({BasketClass})]_vars

\* Registration with and without explicit params, and default resolution.
AutoCatalogue == {m_greet, m_calculate, m_load}
RegCatalogue == AutoCatalogue \cup {m_add_partial, m_produced, m_static, m_shadowed}
NextReg ==
    \/ \E meta \in RegCatalogue : register(meta)
    \/ Invocation

SpecReg == Init /\ [][NextReg]_vars

\* The execution pipeline, with hooks.
PipeCatalogue == {m_add_positive, m_checked}
NextPipe ==
    \/ \E meta \in PipeCatalogue : register(meta)
    \/ \E hook \in HookKinds : add_pre_hook(hook)
    \/ \E hook \in HookKinds : add_post_hook(hook)
    \/ \E hook \in HookKinds : add_error_hook(hook)
    \/ Invocation

SpecPipe == Init /\ [][NextPipe]_vars

\* Custom validators on every kind of parameter source.
ValCatalogue == {m_checked, m_menu_checked, m_list_checked, m_file_checked, m_meta_checked}
NextVal ==
    \/ \E meta \in ValCatalogue : register(meta)
    \/ Invocation

SpecVal == Init /\ [][NextVal]_vars

\* Output destinations, built-in and user-defined.
OutCatalogue == {m_saved, m_kept, m_double, m_add}
NextOut ==
    \/ \E meta \in OutCatalogue : register(meta)
    \/ Invocation

SpecOut == Init /\ [][NextOut]_vars

\* Hooks on a bridge that holds a plain command and the commands of a class.
\* The class is registered on the bridge while it has no hooks, so that its
\* commands are older than every hook; the plain command is registered at
\* any time.  Only the default instance is used.
HookedInvocation ==
    /\ BoundedInvocation
    /\ "instance_name" \notin DOMAIN last'.input
NextHooks ==
    \/ register(m_add)
    \/ NumHooks = 0 /\ register_class(CounterClass(<<>>))
    \/ \E hook \in HookKinds : add_pre_hook(hook)
    \/ \E hook \in HookKinds : add_post_hook(hook)
    \/ \E hook \in HookKinds : add_error_hook(hook)
    \/ HookedInvocation

SpecHooks == Init /\ [][NextHooks]_vars

\* Functions registered without explicit params, called with and without
\* their optional arguments.
RoundTripCatalogue == AutoCatalogue \cup {m_build, m_defaulted}
NextAuto ==
    \/ \E meta \in RoundTripCatalogue : register(meta)
    \/ Invocation

SpecAuto == Init /\ [][NextAuto]_vars

\* The handle register returns, and direct calls of its func, on a bridge
\* with hooks.
NextDirect ==
    \/ \E meta \in PipeCatalogue : register(meta)
    \/ \E hook \in HookKinds : add_pre_hook(hook)
    \/ \E hook \in HookKinds : add_post_hook(hook)
    \/ \E hook \in HookKinds : add_error_hook(hook)
    \/ \E name \in DOMAIN functions : \E kwargs \in DirectArgs : call_func(name, kwargs)

SpecDirect == Init /\ [][NextDirect]_vars

\* A bridge is set up -- commands, a class, hooks -- and then driven from
\* a front-end loop; run() blocks, so nothing is registered while it runs.
Command ==
    \E name \in DOMAIN functions : \E answers \in Answers(functions[name]) :
        /\ \/ CLI_execute_function_command(name, answers)
           \/ MinimalCLI_handle_command(name, answers)
        /\ Len(context_history') <= MaxInstances + 1
        /\ \A k \in DOMAIN context' : context'[k].n <= MaxCount
NextCli ==
    \/ loop = "idle" /\ \E meta \in PipeCatalogue : register(meta)
    \/ loop = "idle" /\ register_class(CounterClass(<<>>))
    \/ loop = "idle" /\ \E hook \in HookKinds : add_pre_hook(hook)
    \/ loop = "idle" /\ \E hook \in HookKinds : add_post_hook(hook)
    \/ loop = "idle" /\ \E hook \in HookKinds : add_error_hook(hook)
    \/ \E frontend \in FrontEnds : run(frontend)
    \/ quit
    \/ Command

SpecCli == Init /\ [][NextCli]_vars

\* The versioned context of a bridge with a stateful class: the commands of
\* the class work on the default instance, next to update_context,
\* clear_context and restore_context.
SnapKeys == {<<"a">>}
SnapValues == {IntV(1)}
NextSnap ==
    \/ register_class(CounterClass(<<>>))
    \/ HookedInvocation
    \/ \E key \in SnapKeys, value \in SnapValues : UpdateContext(key, value)
    \/ ClearContext
    \/ \E index \in 0..MaxHistory : RestoreContext(index)

SpecSnap == Init /\ [][NextSnap]_vars

\* A bridge with a stateful class whose context is also written directly:
\* update_context("a", 1) and update_context("my_instance", 1).
ListKeys == {<<"a">>, <<"my", "_instance">>}
ListValues == {IntV(1)}
NextList ==
    \/ register_class(CounterClass(<<>>))
    \/ BoundedInvocation
    \/ \E key \in ListKeys, value \in ListValues : UpdateContext(key, value)

SpecList == Init /\ [][NextList]_vars

(***************************************************************************)
(* Properties.                                                             *)
(***************************************************************************)
\* the events of one kind, in log order
EventsOf(log, ev) == SelectSeq(log, LAMBDA e : e.ev = ev)
\* the positions of the events of one kind
Positions(log, ev) == {i \in 1..Len(log) : log[i].ev = ev}
IsPrefix(s, t) == Len(s) <= Len(t) /\ SubSeq(t, 1, Len(s)) = s

Invoked == last.op = "invoke"
\* the metadata of the command invoked last
Meta == functions[last.name]
\* some pre-hook raises, so that the pipeline never gets to validation
PreHookRaises == \E i \in 1..Len(pre_hooks) : pre_hooks[i] = "raise"
\* a custom validator of the command rejects the input: returns false or raises
CustomRejects(meta, params) ==
    \E i \in 1..Len(meta.params) :
        /\ meta.params[i].ps.validator # "none"
        /\ CallValidator(meta.params[i].ps.validator,
                         DictGet(params, meta.params[i].pname, meta.params[i].ps.dflt.v)) # "true"
\* the wrapped function was called and raised
FunctionRaised == Positions(last.log, "call") # {} /\ last.result = NoValue
\* the error hooks fired are the first hooks of the list, in registration
\* order, each with (exc, metadata) -- all of them unless one raised
ErrorHooksFired(exc) ==
    LET errs == EventsOf(last.log, "error")
    IN  /\ Len(errs) <= Len(error_hooks)
        /\ \A i \in 1..Len(errs) : errs[i] = Event("error", i, exc, Meta)
        /\ \A i \in 1..Len(errs) : i < Len(errs) => error_hooks[i] = "ok"
        /\ Len(errs) < Len(error_hooks)
             => Len(errs) >= 1 /\ error_hooks[Len(errs)] = "raise"

\* C1: no partial execution -- when the input of an invocation fails custom
\* validation or schema validation, the wrapped function is not called, no
\* output destination receives a value (the context it writes to is left as
\* it was) and no post-hook fires.
C1_NoPartialExecution ==
    (Invoked /\ (CustomRejects(Meta, last.input) \/ SchemaFails(Meta.func.sig, last.input)))
    => /\ Positions(last.log, "call") = {}
       /\ Positions(last.log, "send") = {}
       /\ Positions(last.log, "post") = {}
       /\ last.result = NoValue
       /\ last.outcome # "ok"
       /\ context = before.ctx /\ context_history = before.hist

\* C1 witness: a rejected input on a bridge with pre- and post-hooks, for a
\* command that has an output destination with send
C1_Witness ==
    /\ Invoked /\ last.name = "checked"
    /\ CustomRejects(Meta, last.input)
    /\ last.outcome = "BridgeValidationError"
    /\ pre_hooks # <<>> /\ post_hooks # <<>>

\* C2: hook ordering -- on a successful invocation every pre-hook fires
\* exactly once, in registration order, before the single call of the
\* wrapped function, and every post-hook fires exactly once, in registration
\* order, after it.
C2_HookOrdering ==
    (Invoked /\ last.outcome = "ok")
    => LET pres == EventsOf(last.log, "pre")
           posts == EventsOf(last.log, "post")
       IN  /\ [i \in 1..Len(pres) |-> pres[i].idx] = [i \in 1..Len(pre_hooks) |-> i]
           /\ [i \in 1..Len(posts) |-> posts[i].idx] = [i \in 1..Len(post_hooks) |-> i]
           /\ \A i \in 1..Len(posts) : posts[i].arg = last.result
           /\ Cardinality(Positions(last.log, "call")) = 1
           /\ \A c \in Positions(last.log, "call") :
                /\ \A i \in Positions(last.log, "pre") : i < c
                /\ \A j \in Positions(last.log, "post") : c < j

\* C2 witness: a successful call with two pre-hooks and a post-hook
C2_Witness ==
    /\ Invoked /\ last.outcome = "ok"
    /\ Len(pre_hooks) >= 2 /\ Len(post_hooks) >= 1

\* C3: when the wrapped function raises, the error hooks are invoked in
\* registration order, each once with (the raised exception, the metadata),
\* after the call; when the wrapped BridgeExecutionError reaches the caller
\* every registered error hook has been invoked (the list is cut short only
\* by an error hook that raises, and then the hook's exception propagates).
C3_ErrorHooksOnExecutionFailure ==
    (Invoked /\ FunctionRaised)
    => LET exc == CallFunc(Meta.func, ModelDump(Meta.func.sig, last.input), before).value
       IN  /\ ErrorHooksFired(exc)
           /\ \A c \in Positions(last.log, "call") :
                \A e \in Positions(last.log, "error") : c < e
           /\ last.outcome \in {"BridgeExecutionError", "HookError"}
           /\ last.outcome = "BridgeExecutionError"
                => /\ Len(EventsOf(last.log, "error")) = Len(error_hooks)
                   /\ last.cause = exc

\* C3 witness: an execution failure reported to two error hooks
C3_Witness ==
    /\ Invoked /\ FunctionRaised
    /\ last.outcome = "BridgeExecutionError"
    /\ Len(error_hooks) >= 2

\* C4: when the input fails schema validation, the error hooks are invoked
\* in registration order, each once with (the validation exception, the
\* metadata); when BridgeValidationError reaches the caller every registered
\* error hook has been invoked.
C4_ErrorHooksOnSchemaFailure ==
    (/\ Invoked /\ ~PreHookRaises
     /\ ~CustomRejects(Meta, last.input)
     /\ SchemaFails(Meta.func.sig, last.input))
    => /\ ErrorHooksFired(Exc("ValidationError"))
       /\ last.outcome \in {"BridgeValidationError", "HookError"}
       /\ last.outcome = "BridgeValidationError"
            => Len(EventsOf(last.log, "error")) = Len(error_hooks)

\* C4 witness: a schema failure reported to two error hooks
C4_Witness ==
    /\ Invoked /\ SchemaFails(Meta.func.sig, last.input)
    /\ last.outcome = "BridgeValidationError"
    /\ last.cause = Exc("ValidationError")
    /\ Len(error_hooks) >= 2

\* C5: when a custom validator rejects a value (returns false or raises),
\* every registered error hook is invoked before BridgeValidationError
\* reaches the caller.
C5_ErrorHooksOnCustomRejection ==
    (/\ Invoked /\ ~PreHookRaises
     /\ CustomRejects(Meta, last.input)
     /\ last.outcome = "BridgeValidationError")
    => Len(EventsOf(last.log, "error")) = Len(error_hooks)

\* C6: context monotonicity -- a fresh registry holds one empty snapshot;
\* update_context(key, value) sets the key in the live context and makes
\* the history one longer, its last entry being the live context; after n
\* calls on a fresh registry the history length is n + 1.
C6_ContextMonotonicity ==
    /\ n_updates >= 0
         => /\ Len(context_history) = n_updates + 1
            /\ context_history[1] = EmptyDict
            /\ context_history[Len(context_history)] = context
    /\ last.op = "update_context"
         => /\ last.key \in DOMAIN context
            /\ context[last.key] = last.result
            /\ \A k \in DOMAIN before.ctx : k \in DOMAIN context
            /\ \A k \in DOMAIN context :
                 k # last.key => k \in DOMAIN before.ctx /\ context[k] = before.ctx[k]
            /\ Len(context_history) = Len(before.hist) + 1
            /\ context_history[Len(context_history)] = context

\* C6 witness: the third update_context call on a fresh registry
C6_Witness ==
    /\ last.op = "update_context"
    /\ n_updates = 3
    /\ Cardinality(DOMAIN context) = 2

\* C7: clear_context leaves the live context empty and the history equal to
\* a single empty snapshot, whatever they were.
C7_ClearResets ==
    last.op = "clear_context"
    => /\ context = EmptyDict
       /\ context_history = <<EmptyDict>>

\* C7 witness: clear_context on a bridge with three snapshots and a key set
C7_Witness ==
    /\ last.op = "clear_context"
    /\ Len(before.hist) >= 3
    /\ before.ctx # EmptyDict

\* C8: restore_context(i) with a valid position i sets the live context to
\* a copy of history[i] as it was at the call and appends that entry to the
\* history, which becomes one longer; a key set after snapshot i is absent
\* from the live context afterwards.
C8_RestoreValid ==
    (/\ last.op = "restore_context"
     /\ 0 <= last.index /\ last.index < Len(before.hist))
    => LET snap == before.hist[last.index + 1]
       IN  /\ last.outcome = "ok"
           /\ context = snap
           /\ Len(context_history) = Len(before.hist) + 1
           /\ context_history[Len(context_history)] = snap
           /\ \A k \in DOMAIN before.ctx : k \notin DOMAIN snap => k \notin DOMAIN context

\* C8 witness: a restore to a snapshot older than a key of the live context
C8_Witness ==
    /\ last.op = "restore_context" /\ last.outcome = "ok"
    /\ last.index >= 1
    /\ \E k \in DOMAIN before.ctx : k \notin DOMAIN before.hist[last.index + 1]

\* C9: restore_context(index) with an index that is no history position
\* (negative, or at least the history length) raises IndexError and leaves
\* the live context and the history as they were.
C9_RestoreInvalid ==
    (/\ last.op = "restore_context"
     /\ (last.index < 0 \/ last.index >= Len(before.hist)))
    => /\ last.outcome = "IndexError"
       /\ context = before.ctx
       /\ context_history = before.hist

\* C9 witness: a negative index on a bridge with history
C9_Witness ==
    /\ last.op = "restore_context"
    /\ last.index < 0
    /\ Len(before.hist) >= 2
    /\ last.outcome = "IndexError"

\* C10: the history is append-only -- every operation but clear_context
\* (update_context, restore_context, command invocations) keeps the history
\* it found as a prefix of the history it leaves.
C10_HistoryAppendOnly ==
    last.op # "clear_context" => IsPrefix(before.hist, context_history)

\* C10 witness: an invocation that appended to a history of two snapshots
C10_Witness ==
    /\ Invoked
    /\ Len(before.hist) >= 2
    /\ Len(context_history) > Len(before.hist)

(***************************************************************************)
(* Stateful classes.                                                       *)
(***************************************************************************)
IsConstructor == Invoked /\ Meta.func.body = "make_and_store_instance"
IsMethod == Invoked /\ Meta.func.body = "method_func"
\* the instance_name of the input mapping, None when it has none
GivenName == DictGet(last.input, "instance_name", None)
\* the key the invoked command works on: the base key K of its class, or
\* K:<instance_name> when the caller names an instance
DerivedKey ==
    IF GivenName = None THEN Meta.func.key
    ELSE Meta.func.key \o <<":", Text(GivenName)>>

\* C11: instance independence -- a method command invoked on one instance
\* name changes the instance stored under that name's key only: every other
\* key of the context keeps its value, no key appears or disappears, and
\* Counter.increment returns that instance's value plus the amount.
C11_InstanceIndependence ==
    IsMethod =>
        /\ DOMAIN context = DOMAIN before.ctx
        /\ \A k \in DOMAIN context : k # DerivedKey => context[k] = before.ctx[k]
        /\ (last.name = "Counter.increment" /\ last.outcome = "ok")
           => /\ last.result = IntV(before.ctx[DerivedKey].n + last.input["amount"].n)
              /\ context[DerivedKey].n = last.result.n

\* C11 witness: with counters foo and bar stored, increment on foo has
\* changed foo and left bar as it was
C11_Witness ==
    /\ IsMethod
    /\ last.name = "Counter.increment"
    /\ last.outcome = "ok"
    /\ GivenName = Foo
    /\ <<"Counter", "_instance", ":", "bar">> \in DOMAIN context
    /\ context[<<"Counter", "_instance", ":", "foo">>]
          # before.ctx[<<"Counter", "_instance", ":", "foo">>]
    /\ context[<<"Counter", "_instance", ":", "foo">>]
          # context[<<"Counter", "_instance", ":", "bar">>]

\* C12: the constructor command of a class registered under base key K
\* constructs the object from its arguments, stores it under K when no
\* instance name is given and under K:<instance_name> when one is, as one
\* more snapshot of the history, and returns the object it stored.
C12_ConstructorStores ==
    IsConstructor =>
        /\ last.outcome = "ok"
        /\ last.result = New(Meta.func.cls, ModelDump(Meta.func.sig, last.input))
        /\ DerivedKey \in DOMAIN context
        /\ context[DerivedKey] = last.result
        /\ \A k \in DOMAIN before.ctx : k # DerivedKey => context[k] = before.ctx[k]
        /\ DOMAIN context = DOMAIN before.ctx \cup {DerivedKey}
        /\ context_history = Append(before.hist, context)

\* C12 witness: a named and an unnamed instance are stored, the named one last
C12_Witness ==
    /\ IsConstructor
    /\ GivenName = Bar
    /\ Meta.func.key \in DOMAIN before.ctx
    /\ DerivedKey \notin DOMAIN before.ctx
    /\ DerivedKey \in DOMAIN context

\* C13 (as stated): for a class registered without a context_key, the base
\* key K is the lower-cased class name followed by "_instance", so that an
\* unnamed constructor call stores its object under that key.
C13_LowerCasedKey ==
    (IsConstructor /\ GivenName = None)
    => <<Lower(Meta.func.cls.cname), "_instance">> \in DOMAIN context

\* C13 (amended): for a class registered without a context_key, the base key
\* K is the class name as written, case preserved, followed by "_instance".
C13_ClassNameKey ==
    (IsConstructor /\ GivenName = None)
    => /\ Meta.func.key = <<Meta.func.cls.cname, "_instance">>
       /\ <<Meta.func.cls.cname, "_instance">> \in DOMAIN context
       /\ context[<<Meta.func.cls.cname, "_instance">>] = last.result

\* C13 witness: an unnamed Counter is created on a bridge that held none
C13_Witness ==
    /\ IsConstructor
    /\ GivenName = None
    /\ before.ctx = EmptyDict
    /\ DOMAIN context = {<<"Counter", "_instance">>}

\* C14 (as stated): a method command that finds nothing stored under its
\* derived key fails with the missing-instance error itself reaching the
\* caller, the context and the history unchanged.
C14_MissingInstanceRaised ==
    (IsMethod /\ DerivedKey \notin DOMAIN before.ctx)
    => /\ last.outcome = "RuntimeError"
       /\ context = before.ctx
       /\ context_history = before.hist

\* C14 (amended): a method command that finds nothing stored under its
\* derived key fails, on a bridge without hooks, with BridgeExecutionError
\* whose cause is the RuntimeError naming that key; the method is not run,
\* nothing is returned, and the context and the history are unchanged.
C14_MissingInstanceWrapped ==
    (IsMethod /\ DerivedKey \notin DOMAIN before.ctx)
    => /\ last.outcome = "BridgeExecutionError"
       /\ last.cause = NoInstanceError(DerivedKey)
       /\ last.result = NoValue
       /\ context = before.ctx
       /\ context_history = before.hist

\* C14 witness: reset is invoked on foo while only bar is stored
C14_Witness ==
    /\ IsMethod
    /\ last.name = "Counter.reset"
    /\ GivenName = Foo
    /\ DerivedKey \notin DOMAIN before.ctx
    /\ <<"Counter", "_instance", ":", "bar">> \in DOMAIN before.ctx

\* C15: a method command that finds an instance stored under its derived
\* key never reports a missing instance, whatever the state of the instance,
\* empty instances included.
C15_StoredInstanceFound ==
    (IsMethod /\ DerivedKey \in DOMAIN before.ctx)
    => last.cause # NoInstanceError(DerivedKey)

\* C16: list_all_instances reports every instance a constructor command
\* has stored under the name of its class, an unnamed one as "default",
\* whatever base key the class was registered under.
C16_ListComplete ==
    IsConstructor =>
        LET listed == list_all_instances(context)
            name == IF GivenName = None THEN <<"default">> ELSE <<Text(GivenName)>>
        IN  /\ <<Meta.func.cls.cname>> \in DOMAIN listed
            /\ name \in listed[<<Meta.func.cls.cname>>]

(***************************************************************************)
(* Registration and default resolution.                                    *)
(***************************************************************************)
\* the commands registered without explicit params
AutoRegistered == {name \in DOMAIN functions : functions[name] \in AutoCatalogue}
\* the ParamSource variant the resolution priority Menu, List, File, Context,
\* Input assigns to an annotation
Expected(annotation) ==
    CASE annotation = "enum" -> "Menu"
      [] annotation = "List[int]" -> "List"
      [] annotation = "TextIO" -> "File"
      [] OTHER -> "Input"
ParamNames(meta) == [i \in 1..Len(meta.params) |-> meta.params[i].pname]
DeclaredNames(meta) == [i \in 1..Len(meta.func.sig) |-> meta.func.sig[i].pname]

\* C17: for a function registered without explicit params, a parameter
\* typed as an enumeration resolves to Menu, a sequence type to List, a
\* file-like type to File, and every other parameter to Input.
C17_ResolutionPriority ==
    \A name \in AutoRegistered :
        LET meta == functions[name]
        IN  /\ Len(meta.params) = Len(meta.func.sig)
            /\ \A i \in 1..Len(meta.params) :
                   meta.params[i].ps.src = Expected(meta.func.sig[i].ann)

\* C18: no parameter of a function registered without explicit params
\* resolves to a Context ParamSource, whatever its declared type.
C18_ContextNeverAuto ==
    \A name \in AutoRegistered :
        \A i \in 1..Len(functions[name].params) :
            functions[name].params[i].ps.src \notin {"Context", "NoneType"}

\* C18 witness: functions with str, bool, float, enum, list and
\* unannotated parameters are registered without explicit params
C18_Witness ==
    /\ AutoRegistered = {"greet", "calculate", "load"}
    /\ \A name \in AutoRegistered :
           Len(functions[name].params) = Len(functions[name].func.sig)

\* C19: the keys of the name-to-ParamSource mapping of every registered
\* command are exactly the declared parameter names of its function, in
\* declaration order, whether auto-resolved or given explicitly.
C19_ParamKeysAreDeclared ==
    \A name \in DOMAIN functions :
        ParamNames(functions[name]) = DeclaredNames(functions[name])

\* the invoked command has the one parameter a, which the input mapping
\* leaves out or gives as null
DefaultWanted ==
    /\ Invoked
    /\ last.name \in {"produced", "static", "shadowed"}
    /\ DictGet(last.input, "a", None) = None
\* the ParamSource default of a
SourceDefault == Meta.params[1].ps.dflt

\* C20 (as stated): for a parameter missing from the input mapping or null,
\* the pipeline supplies the ParamSource default before validation -- the
\* value a producer returns, or the static default itself -- so that the
\* function (which doubles a) is called with it.
C20_DefaultSupplied ==
    DefaultWanted => (last.outcome = "ok" /\ last.result = IntV(2 * SourceDefault.v.n))

\* C20 (amended): for a parameter missing from the input mapping or null,
\* the pipeline supplies the value returned by the ParamSource default when
\* that is a zero-argument producer.  A static ParamSource default is not
\* supplied: a missing parameter gets the declared default of the function
\* from the schema, or fails validation when there is none, and a null is
\* validated as it is.
C20_ProducerDefaultSupplied ==
    DefaultWanted =>
        IF SourceDefault.kind = "callable"
        THEN last.outcome = "ok" /\ last.result = IntV(2 * SourceDefault.v.n)
        ELSE IF "a" \in DOMAIN last.input \/ Meta.func.sig[1].req
        THEN last.outcome = "BridgeValidationError" /\ last.result = NoValue
        ELSE last.outcome = "ok" /\ last.result = IntV(2 * Meta.func.sig[1].dflt.n)

\* C20 witness: a null is replaced by what the producer returns
C20_Witness ==
    /\ DefaultWanted
    /\ "a" \in DOMAIN last.input
    /\ SourceDefault.kind = "callable"
    /\ last.result = IntV(2)

\* the parameters of the command invoked last that carry a custom validator
Validated == {i \in 1..Len(Meta.params) : Meta.params[i].ps.validator # "none"}
\* the value the validator of parameter i is given
Offered(i) == DictGet(last.input, Meta.params[i].pname, Meta.params[i].ps.dflt.v)

\* C21: for every parameter that carries a custom validator, whatever its
\* source variant (Input, Menu, List, File, parameter metadata): a validator
\* that returns false or raises makes the call fail with BridgeValidationError
\* identifying the parameter, the offending value and the cause; a validator
\* that accepts lets the pipeline go on to schema validation; the step ends
\* in no other kind of error.
C21_ValidatorOnAnyVariant ==
    (Invoked /\ pre_hooks = <<>> /\ Validated # {})
    => \A i \in Validated :
          LET verdict == CallValidator(Meta.params[i].ps.validator, Offered(i))
              checks == EventsOf(last.log, "validator")
          IN  /\ checks # <<>>
              /\ checks[1] = Event("validator", i, Offered(i), Meta)
              /\ verdict # "true"
                   => /\ last.outcome = "BridgeValidationError"
                      /\ last.cause = IF verdict = "false" THEN Exc("BridgeValidationError")
                                      ELSE Exc("TypeError")
              /\ verdict = "true"
                   => last.outcome \in {"ok", "BridgeValidationError", "BridgeExecutionError"}

\* some error hook raises when it is called
ErrorHookRaises == \E i \in 1..Len(error_hooks) : error_hooks[i] = "raise"

\* C22: when the wrapped function raises, the caller receives a
\* BridgeExecutionError for the command invoked whose cause is the function's
\* own exception (the exception of a raising error hook takes its place, as
\* for every hook), no output destination receives a value -- nothing is
\* sent, the context is as it was -- and no post-hook fires.
C22_ExecutionFailureReported ==
    (Invoked /\ FunctionRaised)
    => LET exc == CallFunc(Meta.func, ModelDump(Meta.func.sig, last.input), before).value
       IN  /\ last.outcome = IF ErrorHookRaises THEN "HookError" ELSE "BridgeExecutionError"
           /\ ~ErrorHookRaises => last.cause = exc /\ last.name = Meta.name
           /\ \A i \in Positions(last.log, "call") : last.log[i].meta = last.name
           /\ Positions(last.log, "send") = {}
           /\ Positions(last.log, "post") = {}
           /\ context = before.ctx /\ context_history = before.hist

\* C22 witness: a function that raised on a command with a sending
\* destination, on a bridge with a post-hook
C22_Witness ==
    /\ Invoked /\ FunctionRaised
    /\ last.outcome = "BridgeExecutionError"
    /\ last.cause = Exc("ValueError")
    /\ \E j \in 1..Len(Meta.output) : HasSend(Meta.output[j])
    /\ Len(post_hooks) >= 1

\* the send events a list of destinations gives rise to, one per destination
\* of the set given, in declaration order, each with the result
SendsTo(dests) ==
    LET idx == SelectSeq([j \in 1..Len(Meta.output) |-> j], LAMBDA j : j \in dests)
    IN  [k \in 1..Len(idx) |-> Event("send", idx[k], last.result, Meta)]

\* C23: on every successful invocation each output destination attached to
\* the command is sent the result exactly once, in declaration order, after
\* the function has returned and before any post-hook fires.
C23_EveryDestinationSent ==
    (Invoked /\ last.outcome = "ok")
    => /\ EventsOf(last.log, "send") = SendsTo(1..Len(Meta.output))
       /\ \A s \in Positions(last.log, "send") :
             /\ \A c \in Positions(last.log, "call") : c < s
             /\ \A p \in Positions(last.log, "post") : s < p

\* the keys of the ContextOutputDestination entries of the command invoked last
ContextWrites ==
    {Meta.output[j].key : j \in {i \in 1..Len(Meta.output) : Meta.output[i].kind = "Context"}}

\* C24: every built-in output destination has an effective send: after a
\* successful invocation of a command registered with
\* ContextOutputDestination(k), the live context maps k to the result.
C24_ContextDestinationWrites ==
    (Invoked /\ last.outcome = "ok")
    => \A k \in ContextWrites : DictGet(context, k, NoValue) = last.result

\* the first pre-hook that raises
FirstRaisingPreHook ==
    CHOOSE i \in 1..Len(pre_hooks) :
        pre_hooks[i] = "raise" /\ \A j \in 1..(i - 1) : pre_hooks[j] = "ok"

\* C25: a pre-hook that raises aborts the invocation with its own exception,
\* not wrapped: the pre-hooks after it do not run, the wrapped function is
\* not called, and no validator, error hook, destination or post-hook is
\* reached.
C25_PreHookAborts ==
    (Invoked /\ PreHookRaises)
    => /\ last.outcome = "HookError"
       /\ last.cause = Exc("HookError")
       /\ last.log = [i \in 1..FirstRaisingPreHook |-> Event("pre", i, NoValue, Meta)]
       /\ last.result = NoValue
       /\ context = before.ctx /\ context_history = before.hist

\* C25 witness: the first of two pre-hooks raised, with an error hook or a
\* post-hook registered, on an input the function would have accepted
C25_Witness ==
    /\ Invoked /\ Len(pre_hooks) >= 2 /\ pre_hooks[1] = "raise"
    /\ Len(error_hooks) + Len(post_hooks) >= 1
    /\ last.input = [p \in {"a"} |-> IntV(1)]
    /\ last.outcome = "HookError"

\* the input reached schema validation and failed it
SchemaFailureReported ==
    /\ Invoked /\ ~PreHookRaises
    /\ ~CustomRejects(Meta, last.input)
    /\ SchemaFails(Meta.func.sig, last.input)
\* the first error hook that raises
FirstRaisingErrorHook ==
    CHOOSE i \in 1..Len(error_hooks) :
        error_hooks[i] = "raise" /\ \A j \in 1..(i - 1) : error_hooks[j] = "ok"

\* C26: an error hook that raises while a schema-validation or execution
\* failure is being reported aborts the pipeline with the hook's own
\* exception in place of BridgeValidationError / BridgeExecutionError, and
\* the error hooks registered after it are not invoked.
C26_ErrorHookAborts ==
    (Invoked /\ ErrorHookRaises /\ (SchemaFailureReported \/ FunctionRaised))
    => LET errs == EventsOf(last.log, "error")
       IN  /\ last.outcome = "HookError"
           /\ last.cause = Exc("HookError")
           /\ Len(errs) = FirstRaisingErrorHook
           /\ \A i \in 1..Len(errs) : errs[i].idx = i
           /\ last.log[Len(last.log)].ev = "error"
           /\ last.result = NoValue

\* C26 witness: the first of two error hooks raised, once on an execution
\* failure and once on a schema failure
C26_Witness ==
    /\ Invoked /\ FunctionRaised
    /\ Len(error_hooks) >= 2 /\ error_hooks[1] = "raise"
    /\ last.outcome = "HookError"
C26_WitnessSchema ==
    /\ SchemaFailureReported
    /\ Len(error_hooks) >= 2 /\ error_hooks[1] = "raise"
    /\ last.outcome = "HookError"

\* the wrapped function was called on the validated input and raises on it
FunctionFails ==
    /\ Invoked /\ Positions(last.log, "call") # {}
    /\ CallFunc(Meta.func, ModelDump(Meta.func.sig, last.input), before).raised

\* C27: error hooks cannot suppress or alter a failure -- when every error
\* hook returns normally, an invocation that failed schema validation still
\* raises BridgeValidationError and one whose function raised still raises
\* BridgeExecutionError with the function's exception as cause, and the
\* caller gets no result.
C27_ErrorHooksCannotSuppress ==
    (Invoked /\ ~ErrorHookRaises)
    => /\ SchemaFailureReported
            => /\ last.outcome = "BridgeValidationError"
               /\ last.cause = Exc("ValidationError")
               /\ last.result = NoValue
               /\ Len(EventsOf(last.log, "error")) = Len(error_hooks)
       /\ FunctionFails
            => /\ last.outcome = "BridgeExecutionError"
               /\ last.cause = CallFunc(Meta.func, ModelDump(Meta.func.sig, last.input),
                                        before).value
               /\ last.result = NoValue
               /\ Len(EventsOf(last.log, "error")) = Len(error_hooks)

\* C27 witness: a schema failure and an execution failure, each reported to
\* two error hooks that return
C27_Witness ==
    /\ SchemaFailureReported
    /\ Len(error_hooks) >= 2 /\ ~ErrorHookRaises
    /\ last.outcome = "BridgeValidationError"
C27_WitnessExecution ==
    /\ FunctionFails
    /\ Len(error_hooks) >= 2 /\ ~ErrorHookRaises
    /\ last.outcome = "BridgeExecutionError"

\* the events of the hooks of one list that fire when the list is run: all
\* of them, or those up to the first that raises
Firing(kind, hooks, arg) ==
    LET raising == {i \in 1..Len(hooks) : hooks[i] = "raise"}
        n == IF raising = {} THEN Len(hooks)
             ELSE CHOOSE i \in raising : \A j \in raising : i <= j
    IN  [i \in 1..n |-> Event(kind, i, arg, Meta)]
\* the wrapped function was called and returned
FunctionReturned == Invoked /\ Positions(last.log, "call") # {} /\ last.result # NoValue

\* C28: hooks are registry-wide -- every hook in the bridge's lists fires, in
\* its phase, on every command invoked after it was added: the pre-hooks at
\* the start of every call, the post-hooks after every call whose function
\* returned, the error hooks on every schema or execution failure; this
\* includes the commands registered before the hook was added and the
\* constructor and method commands that register_class synthesized.
C28_HooksRegistryWide ==
    Invoked
    => /\ EventsOf(last.log, "pre") = Firing("pre", pre_hooks, NoValue)
       /\ FunctionReturned
            => EventsOf(last.log, "post") = Firing("post", post_hooks, last.result)
       /\ FunctionFails
            => EventsOf(last.log, "error")
                 = Firing("error", error_hooks,
                          CallFunc(Meta.func, ModelDump(Meta.func.sig, last.input), before).value)
       /\ SchemaFailureReported
            => EventsOf(last.log, "error") = Firing("error", error_hooks, Exc("ValidationError"))

\* C28 witness: a method command of the class, registered before any hook
\* was added, fired a pre-hook and a post-hook; and one that fired a
\* pre-hook and an error hook
C28_Witness ==
    /\ IsMethod /\ FunctionReturned
    /\ Len(EventsOf(last.log, "pre")) >= 1 /\ Len(EventsOf(last.log, "post")) >= 1
C28_WitnessError ==
    /\ (IsMethod \/ IsConstructor) /\ FunctionFails
    /\ Len(EventsOf(last.log, "pre")) >= 1 /\ Len(EventsOf(last.log, "error")) >= 1

\* the declared parameters of the command invoked last that the input leaves out
Omitted == {i \in 1..Len(Meta.func.sig) : Meta.func.sig[i].pname \notin DOMAIN last.input}
\* func(**kwargs) with the input's arguments and, for each parameter left
\* out, the default the function declares
OwnDefaultsCall == CallFunc(Meta.func, ModelDump(Meta.func.sig, last.input), before)

\* C29: round trip of defaults -- for a function registered without explicit
\* params, an invocation that supplies every required argument and leaves
\* out optional ones succeeds, and the function receives its own declared
\* default for each parameter left out (greet with only name behaves as
\* excited=False); an invocation that leaves out a required argument fails
\* with BridgeValidationError.
C29_DefaultsRoundTrip ==
    (Invoked /\ Meta \in RoundTripCatalogue)
    => IF \E i \in Omitted : Meta.func.sig[i].req
       THEN last.outcome = "BridgeValidationError" /\ last.result = NoValue
       ELSE ~SchemaFails(Meta.func.sig, last.input)
              => /\ last.outcome = "ok"
                 /\ last.result = OwnDefaultsCall.value

\* C30: the handle register returns is the one stored under the command
\* name, and its func is the registered function itself: calling func
\* directly returns the function's own result and raises the function's own
\* exceptions unwrapped -- TypeError for a missing argument, the function's
\* ValueError -- without validation (a value the command's validator rejects
\* is accepted) and without firing any hook.
C30_HandleExposesFunction ==
    /\ last.op = "register"
         => /\ last.name \in DOMAIN functions
            /\ functions[last.name] = last.result
            /\ last.result.name = last.name
            /\ last.result.func = f_add_positive
    /\ last.op = "func"
         => /\ last.log = <<>>
            /\ context = before.ctx /\ context_history = before.hist
            /\ IF "a" \notin DOMAIN last.input
               THEN last.outcome = "TypeError" /\ last.cause = Exc("TypeError")
               ELSE IF last.input["a"].n < 0
               THEN last.outcome = "ValueError" /\ last.cause = Exc("ValueError")
               ELSE last.outcome = "ok" /\ last.result = last.input["a"]
            /\ last.outcome # "ok" => last.result = NoValue

\* C30 witness: func of the command with a validator returned a value the
\* validator rejects, on a bridge with a pre-hook and a post-hook
C30_Witness ==
    /\ last.op = "func" /\ last.name = "checked"
    /\ last.input = [p \in {"a"} |-> IntV(0)]
    /\ last.result = IntV(0)
    /\ pre_hooks # <<>> /\ post_hooks # <<>>
C30_WitnessRaise ==
    /\ last.op = "func" /\ last.outcome = "ValueError" /\ error_hooks # <<>>

(***************************************************************************)
(* The front-end command loops.                                            *)
(***************************************************************************)
\* a command was executed from a front-end loop
Commanded == last.op = "command"
\* the pipeline run on the parameters the front-end collected
PipelineRun ==
    __call__(Meta, last.input,
             [ctx |-> before.ctx, hist |-> before.hist,
              pre |-> pre_hooks, post |-> post_hooks, err |-> error_hooks])

\* C31: every command executed from a front-end command loop (CLI and
\* MinimalCLI) goes through the full pipeline: the pre-hooks, validation,
\* the function, output dispatch and the post-hooks take place for it, with
\* the outcome, the result and the context the pipeline gives.
C31_LoopsUsePipeline ==
    Commanded
    => /\ last.log = PipelineRun.log
       /\ last.outcome = PipelineRun.outcome
       /\ PipelineRun.outcome = "ok" => last.result = PipelineRun.result
       /\ context = PipelineRun.ctx

\* C32: in each front-end command loop a command that fails (validation
\* failure, execution failure, missing instance) is caught and reported at
\* the loop's boundary, and the loop goes on to accept the next command: a
\* failing command never terminates the loop.
C32_FailureKeepsLoop ==
    (Commanded /\ last.outcome # "ok") => loop \in FrontEnds

(***************************************************************************)
(* The context history of a bridge with stateful commands.                 *)
(***************************************************************************)
\* C33: after any sequence of update_context, clear_context, restore_context
\* and command invocations, stateful method commands included, the last
\* entry of the context history equals the live context.
C33_LastSnapshotIsLive ==
    context_history[Len(context_history)] = context

\* the operation changed the live context
LiveChanged == context # before.ctx

C34_WitnessRestore ==
    /\ last.op = "update_context" /\ LiveChanged
    /\ \E i \in 1..Len(before.hist) :
          /\ before.hist[i] = before.ctx
          /\ i < Len(before.hist)
          /\ context_history[i] # context

C35_WitnessFailing ==
    /\ IsMethod /\ last.outcome = "BridgeExecutionError"
    /\ Len(context_history) >= 2
C35_WitnessConstructor ==
    /\ IsConstructor /\ last.outcome = "ok"
    /\ Len(before.hist) >= 2

\* C36: a constructor-command invocation that fails -- its input fails
\* validation, or the class constructor raises -- stores no instance: the
\* live context and the history are the same as before the call.
C36_FailedConstructorStoresNothing ==
    (IsConstructor /\ last.outcome # "ok")
    => /\ context = before.ctx
       /\ context_history = before.hist
       /\ last.result = NoValue
       /\ last.outcome \in {"BridgeValidationError", "BridgeExecutionError"}

\* C36 witness: the class constructor raised on a bridge that holds an
\* instance already; the input of a constructor command failed validation
C36_Witness ==
    /\ IsConstructor /\ last.outcome = "BridgeExecutionError"
    /\ last.cause = Exc("ValueError")
    /\ before.ctx # EmptyDict
C36_WitnessValidation ==
    /\ IsConstructor /\ last.outcome = "BridgeValidationError"
    /\ before.ctx # EmptyDict

\* C37: every (class, instance name) entry list_all_instances reports is an
\* instance a constructor command stored -- a key written by update_context
\* is never reported -- and no two stored instances of a class are reported
\* under the same name.
C37_ListSound ==
    /\ \A e \in ListEntries(context) :
          /\ context[e.key].tag = "Counter"
          /\ e.class_part = <<"Counter">>
    /\ \A e1, e2 \in ListEntries(context) :
          (e1.class_part = e2.class_part /\ e1.instance_name = e2.instance_name)
          => e1.key = e2.key

\* C38: with no pre-hook registered, invoking a command leaves the caller's
\* input mapping unchanged: the pipeline adds, removes and replaces no key of
\* the mapping it was given, whether the invocation succeeds or fails.
C38_InputUntouched ==
    (Invoked /\ pre_hooks = <<>>) => PipelineRun.params = last.input

====
